---- MODULE Spec2Model ----
\* Resolve and load hooks of src/src/esm/loaders.ts, with the dynamic-import
\* rewriter they call.  Strings are sequences of tokens: "/", "?", "." and "'"
\* are single characters, a name ("a", "index") or an extension (".js") is one
\* token, so that split, startsWith, includes, regexp tests and replace act on
\* them as the code's string operations act on characters.
EXTENDS Integers, Sequences, FiniteSets, TLC

VARIABLES
    op,                    \* what runs: "resolve", "load", "import" or "candidates"
    specifier,             \* resolve: the specifier argument of the top-level call
    parentURL,             \* resolve: context.parentURL
    tsconfigPathsMatcher,  \* [present, paths]: the matcher and what it answered
    stack,                 \* resolve: the frames of the calls in progress, top last
    ret,                   \* resolve: the value or error being handed to the caller
    calls,                 \* resolve: the delegate calls made so far, in order
    matcherCalls,          \* resolve: the specifiers the matcher was asked about
    oddErrors,             \* resolve: how many delegate failures were not "not found"
    loadUrl,               \* load: the url argument
    context,               \* load: context[contextAttributesProperty]
    sendToParent,          \* load: whether the dependency reporter is connected
    mainThreadPort,        \* load: whether the free name mainThreadPort is bound
    fileMatcher,           \* load: whether a per-file compiler-options lookup exists
    messages,              \* load: what was sent to the dependency reporter, in order
    loadPc,                \* load: where the call is: start, an await, or done
    loaded,                \* load: the delegate's result
    loadCode,              \* load: the source text the commonjs branch works on
    result,                \* load: what the call returned or threw
    trace,                 \* load: the collaborators called so far, in order
    imported,              \* import(): the namespace the dynamic import settled to
    handled,               \* import(): what the chained interop handler returned
    trialOf,               \* candidates: [fn, specifier], the trial and its argument
    candidates,            \* candidates: what the trial hands to the delegate, in order
    parked                 \* the other call in flight, suspended: its local state

resolveVars == <<specifier, parentURL, tsconfigPathsMatcher,
                 stack, ret, calls, matcherCalls, oddErrors>>

loadVars == <<loadUrl, context, sendToParent, mainThreadPort, fileMatcher, messages, loadPc,
              loaded,
              loadCode, result, trace>>

importVars == <<imported, handled>>

trialVars == <<trialOf, candidates>>

vars == <<op, resolveVars, loadVars, importVars, trialVars, parked>>

\* ---------------------------------------------------------------- bounds

\* The matcher answers with at most this many substitution paths.
MaxPaths == 2

\* At most this many delegate failures of one call are of another kind than
\* ERR_MODULE_NOT_FOUND, not counting the failure of the specifier the host
\* asked for when it is a directory.
MaxOddErrors == 1

\* ------------------------------------------------------- string helpers

\* String.prototype.indexOf of a one-token needle, 0 when absent.
IndexOf(s, t) ==
    IF \E i \in 1..Len(s) : s[i] = t
    THEN CHOOSE i \in 1..Len(s) : s[i] = t /\ \A j \in 1..(i - 1) : s[j] # t
    ELSE 0

\* String.prototype.startsWith.
StartsWith(s, p) == Len(s) >= Len(p) /\ SubSeq(s, 1, Len(p)) = p

\* String.prototype.includes.
Includes(s, p) ==
    \E i \in 1..(Len(s) + 1) :
        i + Len(p) - 1 <= Len(s) /\ SubSeq(s, i, i + Len(p) - 1) = p

\* String.prototype.replace with a string pattern: the first occurrence only.
Replace(s, p, r) ==
    IF Includes(s, p)
    THEN LET i == CHOOSE k \in 1..(Len(s) + 1) :
                      /\ k + Len(p) - 1 <= Len(s)
                      /\ SubSeq(s, k, k + Len(p) - 1) = p
                      /\ \A j \in 1..(k - 1) : SubSeq(s, j, j + Len(p) - 1) # p
         IN SubSeq(s, 1, i - 1) \o r \o SubSeq(s, i + Len(p), Len(s))
    ELSE s

\* const [a, b] = s.split('?'): the text before the first '?', and the text
\* between the first and the second '?' (what follows a second '?' is dropped).
SplitFirst(s) ==
    IF IndexOf(s, "?") = 0 THEN s ELSE SubSeq(s, 1, IndexOf(s, "?") - 1)

SplitSecond(s) ==
    IF IndexOf(s, "?") = 0
    THEN <<>>
    ELSE LET rest == SubSeq(s, IndexOf(s, "?") + 1, Len(s))
         IN IF IndexOf(rest, "?") = 0 THEN rest
            ELSE SubSeq(rest, 1, IndexOf(rest, "?") - 1)

\* (query ? `?${query}` : ''): an absent and an empty query both add nothing.
QuerySuffix(query) == IF query = <<>> THEN <<>> ELSE <<"?">> \o query

\* ------------------------------------------------- patterns and constants

\* Mutant: the trial list with its first two extensions exchanged.
extensions_JsonFirst == <<".json", ".js", ".ts", ".tsx", ".jsx">>

\* const extensions = ['.js', '.json', '.ts', '.tsx', '.jsx']
extensions == <<".js", ".json", ".ts", ".tsx", ".jsx">>

\* fileProtocol, 'file://'
fileProtocol == <<"file:", "/", "/">>

\* /\/(?:$|\?)/ : a '/' that ends the text or is followed by '?'
isDirectoryPattern(s) ==
    \E i \in 1..Len(s) : s[i] = "/" /\ (i = Len(s) \/ s[i + 1] = "?")

\* /^\.{1,2}\// : './' or '../' at the start
isRelativePathPattern(s) ==
    \/ StartsWith(s, <<".", "/">>)
    \/ StartsWith(s, <<".", ".", "/">>)

\* The extensions of typed-superset source.
typescriptExtensions == {".cts", ".mts", ".ts", ".tsx", ".jsx"}

\* tsExtensionsPattern.test(url): the path ends in a typed-superset extension,
\* a query may follow.  test(undefined) tests the text "undefined".
tsExtensionsPattern(url) ==
    LET p == SplitFirst(url)
    IN Len(p) > 0 /\ p[Len(p)] \in typescriptExtensions

\* context.parentURL?.includes('/node_modules/')
InNodeModules(url) == Includes(url, <<"/", "node_modules", "/">>)

\* The Path-Candidate Generator: the typed siblings of a specifier that ends in
\* a classic extension, in the order they are tried; <<>> is "nothing".
tsExtensions(ext) ==
    CASE ext = ".js"  -> <<".ts", ".tsx">>
      [] ext = ".jsx" -> <<".tsx", ".ts">>
      [] ext = ".mjs" -> <<".mts">>
      [] ext = ".cjs" -> <<".cts">>
      [] OTHER        -> <<>>

resolveTsPath(s) ==
    IF Len(s) = 0
    THEN <<>>
    ELSE LET possible == tsExtensions(s[Len(s)])
         IN [k \in 1..Len(possible) |->
                SubSeq(s, 1, Len(s) - 1) \o <<possible[k]>>]

\* pathToFileURL(p).toString(): 'file://' before the absolute path, and the
\* characters a URL path cannot hold percent-encoded ('?' becomes '%3F').
pathToFileURL(p) ==
    fileProtocol \o [k \in 1..Len(p) |-> IF p[k] = "?" THEN "%3F" ELSE p[k]]

\* The "type" of the package manifest nearest to a file: the files below
\* /b/ belong to a commonjs package, the others to a module package.
getPackageType(url) ==
    IF StartsWith(url, fileProtocol \o <<"/", "b", "/">>) THEN "commonjs" ELSE "module"

\* getFormatFromFileUrl: the format the file's extension names, and for the
\* extensions that name none, the type of the nearest package manifest.
getFormatFromFileUrl(url) ==
    LET p == SplitFirst(url)
        ext == IF Len(p) = 0 THEN "" ELSE p[Len(p)]
        pkgType == getPackageType(url)
    IN CASE ext = ".json"            -> "json"
         [] ext \in {".mjs", ".mts"} -> "module"
         [] ext \in {".cjs", ".cts"} -> "commonjs"
         [] ext \in {".js", ".ts", ".tsx", ".jsx"} -> pkgType
         [] OTHER                    -> ""

\* ------------------------------------------------------- the delegate

ERR_MODULE_NOT_FOUND == "ERR_MODULE_NOT_FOUND"
ERR_UNSUPPORTED_DIR_IMPORT == "ERR_UNSUPPORTED_DIR_IMPORT"
ERR_PACKAGE_PATH_NOT_EXPORTED == "ERR_PACKAGE_PATH_NOT_EXPORTED"
ERR_PACKAGE_IMPORT_NOT_DEFINED == "ERR_PACKAGE_IMPORT_NOT_DEFINED"
ERR_INVALID_MODULE_SPECIFIER == "ERR_INVALID_MODULE_SPECIFIER"

ErrorCodes ==
    {ERR_MODULE_NOT_FOUND, ERR_UNSUPPORTED_DIR_IMPORT, ERR_PACKAGE_PATH_NOT_EXPORTED,
     ERR_PACKAGE_IMPORT_NOT_DEFINED, ERR_INVALID_MODULE_SPECIFIER}

NoError == [code |-> "", message |-> <<>>, stack |-> <<>>]
NoValue == [url |-> <<>>, format |-> ""]

\* The error the host's resolver throws for a specifier: its message quotes
\* the path it looked for (the query is not part of a path), and its stack
\* starts with the message.
NodeError(code, s) ==
    LET message == <<code, "'">> \o SplitFirst(s) \o <<"'", "imported from">>
    IN [code |-> code, message |-> message,
        stack |-> <<"Error:">> \o message \o <<"at">>]

\* The url the host's resolver answers with for a file.
FileUrlOf(s) ==
    IF StartsWith(s, fileProtocol) THEN s ELSE fileProtocol \o <<"/", "r", "/">> \o s

\* What nextResolve(s, context) can do: answer a file url with or without a
\* format, answer a url that is no file, or throw one of the host's errors.
Resolved(url, format) ==
    [ok |-> TRUE, value |-> [url |-> url, format |-> format], error |-> NoError]

Thrown(error) == [ok |-> FALSE, value |-> NoValue, error |-> error]

IsOdd(s, out) ==
    /\ ~out.ok
    /\ out.error.code # ERR_MODULE_NOT_FOUND
    /\ ~(s = specifier /\ out.error.code = ERR_UNSUPPORTED_DIR_IMPORT)

NextResolveOutcomes(s) ==
    {Resolved(FileUrlOf(s), ""), Resolved(FileUrlOf(s), "module"),
     Resolved(<<"data:", "x">>, "")}
    \cup {Thrown(NodeError(code, s)) : code \in ErrorCodes}

\* The host answers the same specifier the same way every time it is asked,
\* and the run stays within the bound on failures of the rarer kinds.
nextResolve(s) ==
    IF \E k \in 1..Len(calls) : calls[k].specifier = s
    THEN {calls[CHOOSE k \in 1..Len(calls) : calls[k].specifier = s].out}
    ELSE {out \in NextResolveOutcomes(s) : IsOdd(s, out) => oddErrors < MaxOddErrors}

\* Mutant: the format is inferred for every file url, whatever the delegate
\* supplied.
resolveExplicitPath_Always(out) ==
    IF out.ok /\ StartsWith(out.value.url, fileProtocol)
    THEN [out EXCEPT !.value.format = getFormatFromFileUrl(out.value.url)]
    ELSE out

\* resolveExplicitPath: the delegate's answer with the format filled in when
\* the delegate left it empty and the url is a file's.
resolveExplicitPath(out) ==
    IF out.ok /\ out.value.format = "" /\ StartsWith(out.value.url, fileProtocol)
    THEN [out EXCEPT !.value.format = getFormatFromFileUrl(out.value.url)]
    ELSE out

\* ------------------------------------------------------------ inputs

\* './a.js', './a', './a/', 'pkg/a.js', 'pkg/', '/a', 'file:///a.mjs',
\* './a/?q'
Specifiers ==
    {<<".", "/", "a", ".js">>, <<".", "/", "a">>, <<".", "/", "a", "/">>,
     <<"pkg", "/", "a", ".js">>, <<"pkg", "/">>, <<"/", "a">>,
     <<"file:", "/", "/", "/", "a", ".mjs">>,
     <<".", "/", "a", "/", "?", "q">>}

\* 'file:///r/m.ts', 'file:///r/m.js', 'file:///r/node_modules/d/m.ts'
ParentURLs ==
    {<<"file:", "/", "/", "/", "r", "/", "m", ".ts">>,
     <<"file:", "/", "/", "/", "r", "/", "m", ".js">>,
     <<"file:", "/", "/", "/", "r", "/", "node_modules", "/", "d", "/", "m", ".ts">>}

\* '/b/g.js' and '/b/f', the absolute paths the configured rules substitute,
\* in the order of the rules.
SubstitutionPaths == <<<<"/", "b", "/", "g", ".js">>, <<"/", "b", "/", "f">>>>

\* The answers of the matcher: the first paths of the rules, up to MaxPaths.
PossiblePaths ==
    {SubSeq(SubstitutionPaths, 1, n) :
        n \in {m \in 0..MaxPaths : m <= Len(SubstitutionPaths)}}

\* ------------------------------------------------------------ frames

Frame(fn, s, recursiveCall) ==
    [fn |-> fn, pc |-> "start", specifier |-> s, recursiveCall |-> recursiveCall,
     i |-> 1, error |-> NoError]

NoReturn == [kind |-> "none", value |-> NoValue, error |-> NoError]
Value(v) == [kind |-> "value", value |-> v, error |-> NoError]
Error(e) == [kind |-> "error", value |-> NoValue, error |-> e]

Top == stack[Len(stack)]
Callers == SubSeq(stack, 1, Len(stack) - 1)

At(fn, pc) == Len(stack) > 0 /\ Top.fn = fn /\ Top.pc = pc

\* The running call moves on within its own body.
Goto(pc, i, error) ==
    /\ stack' = Callers \o <<[Top EXCEPT !.pc = pc, !.i = i, !.error = error]>>
    /\ ret' = NoReturn

\* The running call awaits a call of its own and will continue at pc.
Await(callee, pc, i, error) ==
    /\ stack' = Callers \o <<[Top EXCEPT !.pc = pc, !.i = i, !.error = error], callee>>
    /\ ret' = NoReturn

\* The running call ends and hands a value or an error to its caller.
Finish(r) ==
    /\ stack' = Callers
    /\ ret' = r

\* The specifier of the call of resolve that is running, or that the running
\* trial works for.
RunningResolve ==
    LET k == CHOOSE k \in 1..Len(stack) :
                 /\ stack[k].fn = "resolve"
                 /\ \A j \in (k + 1)..Len(stack) : stack[j].fn # "resolve"
    IN stack[k].specifier

\* One call of the delegate, through resolveExplicitPath.  The log keeps what
\* was asked, the answer, the function that asked, the specifier that function
\* was called with, and the call of resolve it belongs to.
Delegate(s, out) ==
    /\ out \in nextResolve(s)
    /\ calls' = Append(calls, [specifier |-> s, out |-> out, fn |-> Top.fn,
                               of |-> Top.specifier, resolve |-> RunningResolve])
    /\ oddErrors' = IF IsOdd(s, out) THEN oddErrors + 1 ELSE oddErrors

NoDelegate == UNCHANGED <<calls, oddErrors>>

\* The matcher is asked: it answers a specifier the same way every time.
AskMatcher(s, paths) ==
    /\ paths \in IF \E k \in 1..Len(matcherCalls) : matcherCalls[k] = s
                 THEN {tsconfigPathsMatcher.paths}
                 ELSE PossiblePaths
    /\ matcherCalls' = Append(matcherCalls, s)
    /\ tsconfigPathsMatcher' = [tsconfigPathsMatcher EXCEPT !.paths = paths]

NoMatcher == UNCHANGED <<matcherCalls, tsconfigPathsMatcher>>

Fixed == UNCHANGED <<op, specifier, parentURL, loadVars, importVars, trialVars, parked>>

\* ------------------------------------------------------- tryExtensions

\* specifierWithoutQuery + extension + (query ? `?${query}` : '')
ExtensionCandidate(s, extension) ==
    SplitFirst(s) \o <<extension>> \o QuerySuffix(SplitSecond(s))

\* Mutant: the caught error is kept as it was thrown.
StripExtension_Kept(error, extension) == error

\* _error.message.replace(`${extension}'`, "'"), and the same edit of the stack
StripExtension(error, extension) ==
    LET message == Replace(error.message, <<extension, "'">>, <<"'">>)
    IN [error EXCEPT !.message = message,
                     !.stack = Replace(error.stack, error.message, message)]

\* Mutant: every caught error replaces the one kept before.
KeptError_Last(throwError, error, extension) == StripExtension(error, extension)

\* The error tryExtensions keeps: the first one it caught, edited.
KeptError(throwError, error, extension) ==
    IF throwError = NoError THEN StripExtension(error, extension) ELSE throwError

\* One turn of the loop of tryExtensions: the candidate of the next extension
\* goes to the delegate; a result is returned, an error is caught, and after
\* the last extension the kept error is thrown.
TryExtensionsCandidate ==
    /\ At("tryExtensions", "start")
    /\ LET extension == extensions[Top.i]
           candidate == ExtensionCandidate(Top.specifier, extension)
       IN \E out \in nextResolve(candidate) :
            /\ Delegate(candidate, out)
            /\ LET r == resolveExplicitPath(out)
                   throwError == KeptError(Top.error, r.error, extension)
               IN IF r.ok
                  THEN Finish(Value(r.value))
                  ELSE IF Top.i = Len(extensions)
                       THEN Finish(Error(throwError))
                       ELSE Goto("start", Top.i + 1, throwError)
    /\ NoMatcher
    /\ Fixed

\* -------------------------------------------------------- tryDirectory

\* const appendIndex = isExplicitDirectory ? 'index' : '/index'
appendIndex(s) == IF isDirectoryPattern(s) THEN <<"index">> ELSE <<"/", "index">>

\* specifierWithoutQuery + appendIndex + (query ? `?${query}` : '')
IndexSpecifier(s) == SplitFirst(s) \o appendIndex(s) \o QuerySuffix(SplitSecond(s))

\* error.message.replace(`${appendIndex.replace('/', path.sep)}'`, "'") where
\* path.sep is '/', and the same edit of the stack
StripIndex(error, s) ==
    LET message == Replace(error.message, appendIndex(s) \o <<"'">>, <<"'">>)
    IN [error EXCEPT !.message = message,
                     !.stack = Replace(error.stack, error.message, message)]

\* Mutant: the literal specifier gets its own trial whatever its form.
RetriesLiteral_Always(s) == TRUE

\* After the index trial failed, the literal specifier gets its own trial
\* unless the specifier is an explicit directory.
RetriesLiteral(s) == ~isDirectoryPattern(s)

TryDirectoryStart ==
    /\ At("tryDirectory", "start")
    /\ Await(Frame("tryExtensions", IndexSpecifier(Top.specifier), FALSE),
             "index", 1, NoError)
    /\ NoDelegate
    /\ NoMatcher
    /\ Fixed

TryDirectoryIndexReturn ==
    /\ At("tryDirectory", "index")
    /\ IF ret.kind = "value"
       THEN Finish(ret)
       ELSE IF RetriesLiteral(Top.specifier)
            THEN Await(Frame("tryExtensions", Top.specifier, FALSE),
                       "literal", 1, ret.error)
            ELSE Finish(Error(StripIndex(ret.error, Top.specifier)))
    /\ NoDelegate
    /\ NoMatcher
    /\ Fixed

TryDirectoryLiteralReturn ==
    /\ At("tryDirectory", "literal")
    /\ IF ret.kind = "value"
       THEN Finish(ret)
       ELSE Finish(Error(StripIndex(Top.error, Top.specifier)))
    /\ NoDelegate
    /\ NoMatcher
    /\ Fixed

\* -------------------------------------------------------------- resolve

\* Mutant: only a relative specifier counts as a path, a file url does not.
isPath_RelativeOnly(s) == isRelativePathPattern(s)

\* specifier.startsWith(fileProtocol) || isRelativePathPattern.test(specifier)
isPath(s) == StartsWith(s, fileProtocol) \/ isRelativePathPattern(s)

\* Mutant: the location of the requesting module is not looked at.
UsesPathMapping_AnyParent(s, parent) ==
    /\ tsconfigPathsMatcher.present
    /\ ~isPath(s)

\* tsconfigPathsMatcher && !isPath && !context.parentURL?.includes('/node_modules/')
UsesPathMapping(s, parent) ==
    /\ tsconfigPathsMatcher.present
    /\ ~isPath(s)
    /\ ~InNodeModules(parent)

\* const possiblePaths = tsconfigPathsMatcher(specifier)
possiblePaths == tsconfigPathsMatcher.paths

\* The typed siblings tried for a specifier: those of resolveTsPath when the
\* parent is typed-superset source, none otherwise.
tsPaths(s, parent) == IF tsExtensionsPattern(parent) THEN resolveTsPath(s) ELSE <<>>

\* Mutant: the check of the second code is left out.
SiblingErrorIsFatal_OneCode(code) == code # ERR_MODULE_NOT_FOUND

\* code !== 'ERR_MODULE_NOT_FOUND' && code !== 'ERR_PACKAGE_PATH_NOT_EXPORTED'
SiblingErrorIsFatal(code) ==
    code # ERR_MODULE_NOT_FOUND /\ code # ERR_PACKAGE_PATH_NOT_EXPORTED

\* Mutant: a specifier that was not found gets no extension trial.
FallbackFor_DirectoryOnly(code, recursiveCall) ==
    IF ~recursiveCall /\ code = ERR_UNSUPPORTED_DIR_IMPORT THEN "tryDirectory"
    ELSE "throw"

\* The fallback resolve takes when the literal specifier failed with an error.
FallbackFor(code, recursiveCall) ==
    IF ~recursiveCall /\ code = ERR_UNSUPPORTED_DIR_IMPORT THEN "tryDirectory"
    ELSE IF ~recursiveCall /\ code = ERR_MODULE_NOT_FOUND THEN "tryExtensions"
    ELSE "throw"

\* Mutant: the call of resolve on a substitution path is marked recursive.
RecursiveCallArgument_Marked == TRUE

\* The argument resolve passes as recursiveCall when it calls itself: none.
RecursiveCallArgument == FALSE

\* The head of resolve: a directory specifier goes to tryDirectory; a
\* specifier the rules apply to is given to the matcher.
ResolveStart ==
    /\ At("resolve", "start")
    /\ IF isDirectoryPattern(Top.specifier)
       THEN /\ Await(Frame("tryDirectory", Top.specifier, FALSE), "directory", 1, NoError)
            /\ NoMatcher
       ELSE IF UsesPathMapping(Top.specifier, parentURL)
            THEN \E paths \in PossiblePaths :
                    /\ AskMatcher(Top.specifier, paths)
                    /\ IF Len(paths) > 0
                       THEN Goto("paths", 1, NoError)
                       ELSE Goto("siblings", 1, NoError)
            ELSE /\ Goto("siblings", 1, NoError)
                 /\ NoMatcher
    /\ NoDelegate
    /\ Fixed

\* return await tryDirectory(specifier, context, nextResolve)
ResolveDirectoryReturn ==
    /\ At("resolve", "directory")
    /\ Finish(ret)
    /\ NoDelegate
    /\ NoMatcher
    /\ Fixed

\* The loop over the substitution paths: resolve calls itself with the file
\* url of the next path.
ResolvePathsCall ==
    /\ At("resolve", "paths")
    /\ Await(Frame("resolve", pathToFileURL(possiblePaths[Top.i]), RecursiveCallArgument),
             "pathsReturn", Top.i, NoError)
    /\ NoDelegate
    /\ NoMatcher
    /\ Fixed

\* A substitution that resolved is the result; one that failed is dropped,
\* whatever its error.
ResolvePathsReturn ==
    /\ At("resolve", "pathsReturn")
    /\ IF ret.kind = "value"
       THEN Finish(ret)
       ELSE IF Top.i < Len(possiblePaths)
            THEN Goto("paths", Top.i + 1, NoError)
            ELSE Goto("siblings", 1, NoError)
    /\ NoDelegate
    /\ NoMatcher
    /\ Fixed

\* The loop over the typed siblings: each goes to the delegate.
ResolveSibling ==
    /\ At("resolve", "siblings")
    /\ Top.i <= Len(tsPaths(Top.specifier, parentURL))
    /\ LET tsPath == tsPaths(Top.specifier, parentURL)[Top.i]
       IN \E out \in nextResolve(tsPath) :
            /\ Delegate(tsPath, out)
            /\ LET r == resolveExplicitPath(out)
               IN IF r.ok
                  THEN Finish(Value(r.value))
                  ELSE IF SiblingErrorIsFatal(r.error.code)
                       THEN Finish(Error(r.error))
                       ELSE Goto("siblings", Top.i + 1, NoError)
    /\ NoMatcher
    /\ Fixed

\* The literal specifier goes to the delegate; its failure starts a fallback
\* or is thrown.
ResolveLiteral ==
    /\ At("resolve", "siblings")
    /\ Top.i > Len(tsPaths(Top.specifier, parentURL))
    /\ \E out \in nextResolve(Top.specifier) :
        /\ Delegate(Top.specifier, out)
        /\ LET r == resolveExplicitPath(out)
               fallback == FallbackFor(r.error.code, Top.recursiveCall)
           IN IF r.ok
              THEN Finish(Value(r.value))
              ELSE IF fallback = "tryDirectory"
                   THEN Await(Frame("tryDirectory", Top.specifier, FALSE),
                              "directoryFallback", 1, r.error)
                   ELSE IF fallback = "tryExtensions"
                        THEN Await(Frame("tryExtensions", Top.specifier, FALSE),
                                   "extensionsFallback", 1, r.error)
                        ELSE Finish(Error(r.error))
    /\ NoMatcher
    /\ Fixed

\* The directory trial of the fallback came back: its error is thrown unless
\* it is ERR_PACKAGE_IMPORT_NOT_DEFINED, and then the literal's error is.
ResolveDirectoryFallbackReturn ==
    /\ At("resolve", "directoryFallback")
    /\ IF ret.kind = "value"
       THEN Finish(ret)
       ELSE IF ret.error.code # ERR_PACKAGE_IMPORT_NOT_DEFINED
            THEN Finish(ret)
            ELSE Finish(Error(Top.error))
    /\ NoDelegate
    /\ NoMatcher
    /\ Fixed

\* The extension trial of the fallback came back: its error is dropped and
\* the literal's error thrown.
ResolveExtensionsFallbackReturn ==
    /\ At("resolve", "extensionsFallback")
    /\ IF ret.kind = "value"
       THEN Finish(ret)
       ELSE Finish(Error(Top.error))
    /\ NoDelegate
    /\ NoMatcher
    /\ Fixed

\* ------------------------------------------- transformDynamicImport

\* The texts a module can hold: 'x', 'important', 'import(m);x',
\* 'import(m);import(n)', 'import m;export x', 'require(m);import(n)', and
\* the JSON text '{loaded:json}'.
Sources ==
    {<<"x">>, <<"important">>, <<"{", "loaded", ":", "json", "}">>,
     <<"import", "(", "m", ")", ";", "x">>,
     <<"import", "(", "m", ")", ";", "import", "(", "n", ")">>,
     <<"import", "m", ";", "export", "x">>,
     <<"require", "(", "m", ")", ";", "import", "(", "n", ")">>}

handleDynamicImport == ".then(___tsxInteropDynamicImport)"
handleEsModuleFunction == "function ___tsxInteropDynamicImport(imported){}"

\* code.includes('import'): a test on characters, true of 'important' too
IncludesImport(text) == \E k \in 1..Len(text) : text[k] \in {"import", "important"}

\* The dynamic imports the lexer finds (d > -1), each as its se: the offset
\* right after the ')' that closes the call.
DynamicImports(text) ==
    {e \in 1..Len(text) :
        /\ text[e] = ")"
        /\ \E b \in 1..(e - 2) :
            /\ text[b] = "import"
            /\ text[b + 1] = "("
            /\ \A k \in (b + 2)..(e - 1) : text[k] # ")"}

\* magicString.appendRight(se, handleDynamicImport) for every site.
RECURSIVE AppendRight(_, _, _)
AppendRight(text, sites, k) ==
    IF k > Len(text)
    THEN <<>>
    ELSE <<text[k]>>
         \o (IF k \in sites THEN <<handleDynamicImport>> ELSE <<>>)
         \o AppendRight(text, sites, k + 1)

NoTransformed == [defined |-> FALSE, code |-> <<>>, map |-> FALSE]

\* Mutant: the handler is chained to the first dynamic import only.
transformDynamicImport_FirstSite(filePath, text) ==
    IF ~IncludesImport(text) \/ DynamicImports(text) = {}
    THEN NoTransformed
    ELSE LET first == CHOOSE e \in DynamicImports(text) :
                          \A f \in DynamicImports(text) : e <= f
         IN [defined |-> TRUE,
             code |-> AppendRight(text, {first}, 1) \o <<handleEsModuleFunction>>,
             map |-> ~InNodeModules(filePath)]

\* transformDynamicImport(filePath, code): nothing, or the rewritten text
\* with a map unless the file is below node_modules.
transformDynamicImport(filePath, text) ==
    IF ~IncludesImport(text) \/ DynamicImports(text) = {}
    THEN NoTransformed
    ELSE [defined |-> TRUE,
          code |-> AppendRight(text, DynamicImports(text), 1) \o <<handleEsModuleFunction>>,
          map |-> ~InNodeModules(filePath)]

\* ---------------------------------------------------------- the handler

\* What a namespace can hold under 'default': nothing, null, a number or a
\* string (falsy or truthy), an object or a function, with or without the
\* '__esModule' property.
Undefined == [type |-> "undefined", truthy |-> FALSE, esModule |-> FALSE]

DefaultValues ==
    {Undefined, [type |-> "null", truthy |-> FALSE, esModule |-> FALSE]}
    \cup {[type |-> t, truthy |-> b, esModule |-> FALSE] :
            t \in {"number", "string"}, b \in BOOLEAN}
    \cup {[type |-> t, truthy |-> TRUE, esModule |-> m] :
            t \in {"object", "function"}, m \in BOOLEAN}

\* typeof value: null is an 'object'
typeof(value) == IF value.type = "null" THEN "object" ELSE value.type

\* The namespaces a dynamic import settles to: the own enumerable keys in
\* their order, and the value under 'default' (undefined without the key).
Namespaces ==
    {[keys |-> ks, default |-> v] :
        ks \in {<<>>, <<"default">>, <<"named">>, <<"default", "named">>,
                <<"named", "default">>},
        v \in DefaultValues}

IsNamespace(n) ==
    (\E k \in 1..Len(n.keys) : n.keys[k] = "default") \/ n.default = Undefined

\* What the handler hands back: the object it was given, or its default.
NotHandled == "nothing"

\* Mutant: the type of the default is not looked at.
tsxInteropDynamicImport_AnyType(n) ==
    IF /\ Len(n.keys) = 1
       /\ n.keys[1] = "default"
       /\ n.default.truthy
       /\ n.default.esModule
    THEN "imported[d]"
    ELSE "imported"

\* The body of ___tsxInteropDynamicImport: the default when it is the only
\* key, is truthy, is an object and has '__esModule'; the namespace otherwise.
tsxInteropDynamicImport(n) ==
    IF /\ Len(n.keys) = 1
       /\ n.keys[1] = "default"
       /\ n.default.truthy
       /\ typeof(n.default) = "object"
       /\ n.default.esModule
    THEN "imported[d]"
    ELSE "imported"

\* import(m).then(___tsxInteropDynamicImport): the handler gets the namespace.
HandleDynamicImport ==
    /\ op = "import"
    /\ handled = NotHandled
    /\ handled' = tsxInteropDynamicImport(imported)
    /\ UNCHANGED <<op, resolveVars, loadVars, trialVars, parked, imported>>

\* ------------------------------------------- the candidates of a trial

\* What can follow the path of a specifier: nothing, '?q', '?', '?x?y', '?q/'.
Queries ==
    {<<>>, <<"?", "q">>, <<"?">>, <<"?", "x", "?", "y">>, <<"?", "q", "/">>}

\* The specifiers whose candidates are computed: with and without a query, an
\* empty query, a query that holds a second '?' or ends in '/', each for a path
\* that ends in '/' and for one that does not.
QuerySpecifiers ==
    {<<".", "/", "a">> \o q : q \in Queries} \cup {<<".", "/", "a", "/">> \o q : q \in Queries}

\* The candidates tryExtensions(s) hands to the delegate when every one fails.
tryExtensionsCandidates(s) ==
    [j \in 1..Len(extensions) |-> ExtensionCandidate(s, extensions[j])]

\* tryExtensions(specifier): the candidates of the loop, loaders.ts:84-90.
ExtensionCandidates ==
    /\ op = "candidates"
    /\ trialOf.fn = "tryExtensions"
    /\ candidates = <<>>
    /\ candidates' = tryExtensionsCandidates(trialOf.specifier)
    /\ UNCHANGED <<op, resolveVars, loadVars, importVars, parked, trialOf>>

\* tryDirectory(specifier): the candidates of the trial of the index specifier,
\* loaders.ts:112-121.
IndexCandidates ==
    /\ op = "candidates"
    /\ trialOf.fn = "tryDirectory"
    /\ candidates = <<>>
    /\ candidates' = tryExtensionsCandidates(IndexSpecifier(trialOf.specifier))
    /\ UNCHANGED <<op, resolveVars, loadVars, importVars, parked, trialOf>>

\* ----------------------------------------------------------------- load

\* isJsonPattern.test(url): the path ends in .json, a query may follow.
isJsonPattern(u) ==
    LET p == SplitFirst(u) IN Len(p) > 0 /\ p[Len(p)] = ".json"

\* isESM(code): the text has an import or export statement.
isESM(text) ==
    \E k \in 1..Len(text) :
        \/ text[k] = "export"
        \/ text[k] = "import" /\ (k = Len(text) \/ text[k + 1] # "(")

\* fileURLToPath(url): the path of a file url, without its query.
fileURLToPath(u) ==
    LET p == SplitFirst(SubSeq(u, Len(fileProtocol) + 1, Len(u)))
    IN [k \in 1..Len(p) |-> IF p[k] = "%3F" THEN "?" ELSE p[k]]

\* const filePath = url.startsWith('file://') ? fileURLToPath(url) : url
filePathOf(u) == IF StartsWith(u, fileProtocol) THEN fileURLToPath(u) ELSE u

\* String.prototype.endsWith of one of a list of extensions.
EndsWithAny(path, exts) == Len(path) > 0 /\ path[Len(path)] \in exts

transformExtensions == {".js", ".cjs", ".mjs"}

\* const fileUrl = (loaded.responseURL as string) ?? url
fileUrlOf(l, u) == IF l.responseURL = <<>> THEN u ELSE l.responseURL

\* The text the transform collaborator makes of a text.
Transformed(text) == [defined |-> TRUE, code |-> <<"transformed">> \o text, map |-> TRUE]

NoLoaded == [format |-> "", hasSource |-> FALSE, source |-> <<>>, responseURL |-> <<>>]
NoResult == [kind |-> "none", format |-> "", hasSource |-> FALSE, source |-> <<>>,
             error |-> ""]

Returned(format, hasSource, source) ==
    [kind |-> "value", format |-> format, hasSource |-> hasSource, source |-> source,
     error |-> ""]

Threw(error) ==
    [kind |-> "error", format |-> "", hasSource |-> FALSE, source |-> <<>>,
     error |-> error]

\* Mutant: a json url gets a fresh attributes object that holds the type only.
ForceJson_Fresh(u, attributes) ==
    IF isJsonPattern(u)
    THEN [defined |-> TRUE, type |-> "json", other |-> ""]
    ELSE attributes

\* The attributes of the context after the head of load: type is forced to
\* 'json' for a json url, on an object that is made when there is none.
ForceJson(u, attributes) ==
    IF isJsonPattern(u)
    THEN [attributes EXCEPT !.defined = TRUE, !.type = "json"]
    ELSE attributes

\* Mutant: typed-superset source and module syntax are looked for before the
\* .cjs extension.
CommonJsWork_ContentFirst(u, l, text) ==
    LET filePath == filePathOf(u)
        transformTs == EndsWithAny(filePath, typescriptExtensions)
        transformJs == EndsWithAny(filePath, transformExtensions)
    IN IF ~(transformTs \/ transformJs) THEN "none"
       ELSE IF transformTs \/ isESM(text) THEN "transformSync"
       ELSE IF EndsWithAny(fileUrlOf(l, u), {".cjs"}) THEN "transformDynamicImport"
       ELSE "none"

\* Which work the commonjs branch does on a file.
CommonJsWork(u, l, text) ==
    LET filePath == filePathOf(u)
        transformTs == EndsWithAny(filePath, typescriptExtensions)
        transformJs == EndsWithAny(filePath, transformExtensions)
    IN IF ~(transformTs \/ transformJs) THEN "none"
       ELSE IF EndsWithAny(fileUrlOf(l, u), {".cjs"}) THEN "transformDynamicImport"
       ELSE IF transformTs \/ isESM(text) THEN "transformSync"
       ELSE "none"

\* Mutant: only a module is sent through the asynchronous transform.
ModuleWork_ModulesOnly(u, l) ==
    IF ~l.hasSource THEN "none"
    ELSE IF l.format # "module" THEN "none"
    ELSE IF tsExtensionsPattern(u) THEN "transform"
    ELSE "transformDynamicImport"

\* Which work load does on a result that is not commonjs.
ModuleWork(u, l) ==
    IF ~l.hasSource THEN "none"
    ELSE IF tsExtensionsPattern(u) THEN "transform"
    ELSE IF l.format = "module" THEN "transformDynamicImport"
    ELSE "none"

\* Whether the commonjs branch has to read the file itself, which it awaits.
AwaitsReadFile(l) == ~l.hasSource

\* tsconfigRaw: fileMatcher?.(filePath): the lookup runs when there is one.
Lookup == IF fileMatcher THEN <<"fileMatcher">> ELSE <<>>

\* Mutant: a text the synchronous transform rejects goes to the rewriter.
CommonJsBranch_Retrying(u, l, text, syntaxError, port) ==
    IF CommonJsWork(u, l, text) = "transformSync" /\ syntaxError
    THEN [calls |-> <<"transformSync", "transformDynamicImport">>,
          result |-> Returned(l.format, TRUE, text)]
    ELSE [calls |-> <<>>, result |-> Returned(l.format, TRUE, text)]

\* The commonjs branch from the point where it has the text: the rewrite or
\* the synchronous transform, the source map applied with mainThreadPort (a
\* name the module binds nowhere), and the delegate's result returned with
\* the text as its source.  [calls, result]
CommonJsBranch(u, l, text, syntaxError, port) ==
    LET work == CommonJsWork(u, l, text)
        rewritten == transformDynamicImport(filePathOf(u), text)
    IN IF work = "transformDynamicImport"
       THEN IF ~rewritten.defined
            THEN [calls |-> <<"transformDynamicImport">>,
                  result |-> Returned(l.format, TRUE, text)]
            ELSE IF ~port
                 THEN [calls |-> <<"transformDynamicImport">>,
                       result |-> Threw("ReferenceError")]
                 ELSE [calls |-> <<"transformDynamicImport", "applySourceMap">>,
                       result |-> Returned(l.format, TRUE, rewritten.code)]
       ELSE IF work = "transformSync"
            THEN IF syntaxError
                 THEN [calls |-> Lookup \o <<"transformSync">>,
                       result |-> Threw("SyntaxError")]
                 ELSE IF ~port
                      THEN [calls |-> Lookup \o <<"transformSync">>,
                            result |-> Threw("ReferenceError")]
                      ELSE [calls |-> Lookup \o <<"transformSync", "applySourceMap",
                                                  "console.log">>,
                            result |-> Returned(l.format, TRUE, Transformed(text).code)]
            ELSE [calls |-> <<>>, result |-> Returned(l.format, TRUE, text)]

\* The end of load for a result that is not commonjs and is not transformed:
\* a module is rewritten, anything else is returned as it came.
PassThrough(u, l) ==
    LET rewritten == transformDynamicImport(filePathOf(u), l.source)
    IN IF ModuleWork(u, l) = "transformDynamicImport"
       THEN IF rewritten.defined
            THEN [calls |-> <<"transformDynamicImport", "applySourceMap">>,
                  result |-> Returned(l.format, TRUE, rewritten.code)]
            ELSE [calls |-> <<"transformDynamicImport">>,
                  result |-> Returned(l.format, TRUE, l.source)]
       ELSE [calls |-> <<>>, result |-> Returned(l.format, l.hasSource, l.source)]

\* The urls load is called with: 'file:///r/a.ts', 'file:///r/a.cjs',
\* 'file:///r/a.js', 'file:///r/a.json', 'file:///r/node_modules/d/a.mjs',
\* 'file:///r/a.txt', 'node:fs', 'file:///r/a.cjs?q'.
Urls ==
    {fileProtocol \o <<"/", "r", "/", "a", ".ts">>,
     fileProtocol \o <<"/", "r", "/", "a", ".cjs">>,
     fileProtocol \o <<"/", "r", "/", "a", ".cjs", "?", "q">>,
     fileProtocol \o <<"/", "r", "/", "a", ".js">>,
     fileProtocol \o <<"/", "r", "/", "a", ".json">>,
     fileProtocol \o <<"/", "r", "/", "node_modules", "/", "d", "/", "a", ".mjs">>,
     fileProtocol \o <<"/", "r", "/", "a", ".txt">>,
     <<"node:", "fs">>}

\* context[contextAttributesProperty]: no object, an empty one, one with
\* another attribute, one with a type.
Attributes ==
    {[defined |-> FALSE, type |-> "", other |-> ""],
     [defined |-> TRUE, type |-> "", other |-> ""],
     [defined |-> TRUE, type |-> "", other |-> "x"],
     [defined |-> TRUE, type |-> "css", other |-> ""]}

\* What nextLoad can answer: a format with a source, or without one; and a
\* commonjs text that came from another url than the one asked for.
Formats == {"commonjs", "module", "json", "builtin"}

NextLoadResults ==
    {[format |-> f, hasSource |-> TRUE, source |-> text, responseURL |-> <<>>] :
        f \in Formats, text \in Sources}
    \cup {[format |-> f, hasSource |-> FALSE, source |-> <<>>, responseURL |-> <<>>] :
            f \in Formats}
    \cup {[format |-> "commonjs", hasSource |-> TRUE,
           source |-> <<"import", "m", ";", "export", "x">>,
           responseURL |-> fileProtocol \o <<"/", "r", "/", "b", ".cjs">>]}

\* Mutant: the message is sent whether a reporter is connected or not.
Report_Always(connected, u) == <<[type |-> "dependency", path |-> u]>>

\* if (sendToParent) sendToParent({ type: 'dependency', path: url })
Report(connected, u) ==
    IF connected THEN <<[type |-> "dependency", path |-> u]>> ELSE <<>>

\* The head of load: the url is reported when a reporter is connected, the
\* attributes are set for json, and the delegate is called.
LoadStart ==
    /\ op = "load"
    /\ loadPc = "start"
    /\ trace' = (IF sendToParent THEN <<"sendToParent">> ELSE <<>>) \o <<"nextLoad">>
    /\ messages' = messages \o Report(sendToParent, loadUrl)
    /\ context' = ForceJson(loadUrl, context)
    /\ loadPc' = "nextLoad"
    /\ UNCHANGED <<op, resolveVars, importVars, trialVars, parked, loadUrl, sendToParent, mainThreadPort, fileMatcher, loaded, loadCode,
                   result>>

\* nextLoad threw: load throws the same.
LoadNextLoadThrows ==
    /\ op = "load"
    /\ loadPc = "nextLoad"
    /\ result' = Threw("ERR_UNKNOWN_FILE_EXTENSION")
    /\ loadPc' = "done"
    /\ UNCHANGED <<op, resolveVars, importVars, trialVars, parked, loadUrl, context, sendToParent, mainThreadPort, fileMatcher, messages, loaded,
                   loadCode, trace>>

\* nextLoad answered commonjs with a source: the branch runs to its end.
LoadCommonJs ==
    /\ op = "load"
    /\ loadPc = "nextLoad"
    /\ \E l \in NextLoadResults, syntaxError \in BOOLEAN :
        /\ l.format = "commonjs"
        /\ ~AwaitsReadFile(l)
        /\ loaded' = l
        /\ loadCode' = l.source
        /\ LET end == CommonJsBranch(loadUrl, l, l.source, syntaxError, mainThreadPort)
           IN /\ trace' = trace \o end.calls
              /\ result' = end.result
        /\ loadPc' = "done"
    /\ UNCHANGED <<op, resolveVars, importVars, trialVars, parked, loadUrl, context, sendToParent, mainThreadPort, fileMatcher, messages>>

\* nextLoad answered commonjs without a source: load awaits readFile.
LoadCommonJsReadFile ==
    /\ op = "load"
    /\ loadPc = "nextLoad"
    /\ \E l \in NextLoadResults :
        /\ l.format = "commonjs"
        /\ AwaitsReadFile(l)
        /\ loaded' = l
    /\ trace' = trace \o <<"readFile">>
    /\ loadPc' = "readFile"
    /\ UNCHANGED <<op, resolveVars, importVars, trialVars, parked, loadUrl, context, sendToParent, mainThreadPort, fileMatcher, messages, loadCode,
                   result>>

\* readFile came back with the text, or threw: the branch runs to its end.
LoadReadFileReturn ==
    /\ op = "load"
    /\ loadPc = "readFile"
    /\ \/ /\ result' = Threw("ENOENT")
          /\ UNCHANGED <<loadCode, trace>>
       \/ \E text \in Sources, syntaxError \in BOOLEAN :
            /\ loadCode' = text
            /\ LET end == CommonJsBranch(loadUrl, loaded, text, syntaxError, mainThreadPort)
               IN /\ trace' = trace \o end.calls
                  /\ result' = end.result
    /\ loadPc' = "done"
    /\ UNCHANGED <<op, resolveVars, importVars, trialVars, parked, loadUrl, context, sendToParent, mainThreadPort, fileMatcher, messages, loaded>>

\* nextLoad answered another format, and the url is typed-superset source
\* with a text: load awaits the asynchronous transform.
LoadTransform ==
    /\ op = "load"
    /\ loadPc = "nextLoad"
    /\ \E l \in NextLoadResults :
        /\ l.format # "commonjs"
        /\ ModuleWork(loadUrl, l) = "transform"
        /\ loaded' = l
    /\ trace' = trace \o Lookup \o <<"transform">>
    /\ loadPc' = "transform"
    /\ UNCHANGED <<op, resolveVars, importVars, trialVars, parked, loadUrl, context, sendToParent, mainThreadPort, fileMatcher, messages, loadCode,
                   result>>

\* The asynchronous transform came back: its text is returned as a module.
\* Its error leaves load as it is.
LoadTransformReturn ==
    /\ op = "load"
    /\ loadPc = "transform"
    /\ \/ /\ result' = Threw("SyntaxError")
          /\ UNCHANGED trace
       \/ /\ result' = Returned("module", TRUE, Transformed(loaded.source).code)
          /\ trace' = trace \o <<"applySourceMap">>
    /\ loadPc' = "done"
    /\ UNCHANGED <<op, resolveVars, importVars, trialVars, parked, loadUrl, context, sendToParent, mainThreadPort, fileMatcher, messages, loaded,
                   loadCode>>

\* nextLoad answered another format and nothing is transformed: a module is
\* rewritten, anything else returned as it came.
LoadPassThrough ==
    /\ op = "load"
    /\ loadPc = "nextLoad"
    /\ \E l \in NextLoadResults :
        /\ l.format # "commonjs"
        /\ ModuleWork(loadUrl, l) # "transform"
        /\ loaded' = l
        /\ LET end == PassThrough(loadUrl, l)
           IN /\ trace' = trace \o end.calls
              /\ result' = end.result
    /\ loadPc' = "done"
    /\ UNCHANGED <<op, resolveVars, importVars, trialVars, parked, loadUrl, context, sendToParent, mainThreadPort, fileMatcher, messages, loadCode>>

\* ------------------------------------------------------- specification

\* The matcher is there when a configuration with rules was found.
Matchers == {[present |-> b, paths |-> <<>>] : b \in BOOLEAN}

NoTrial ==
    /\ trialOf = [fn |-> "", specifier |-> <<>>]
    /\ candidates = <<>>

\* No other call is in flight.
NoParked == [op |-> "none"]

NoImport ==
    /\ imported = [keys |-> <<>>, default |-> Undefined]
    /\ handled = NotHandled

NoLoad ==
    /\ loadUrl = <<>>
    /\ context = [defined |-> FALSE, type |-> "", other |-> ""]
    /\ sendToParent = FALSE
    /\ mainThreadPort = FALSE
    /\ fileMatcher = FALSE
    /\ messages = <<>>
    /\ loadPc = "idle"
    /\ loaded = NoLoaded
    /\ loadCode = <<>>
    /\ result = NoResult
    /\ trace = <<>>

InitResolve ==
    /\ op = "resolve"
    /\ specifier \in Specifiers
    /\ parentURL \in ParentURLs
    /\ tsconfigPathsMatcher \in Matchers
    /\ stack = <<Frame("resolve", specifier, FALSE)>>
    /\ ret = NoReturn
    /\ calls = <<>>
    /\ matcherCalls = <<>>
    /\ oddErrors = 0
    /\ NoLoad
    /\ NoImport
    /\ NoTrial
    /\ parked = NoParked

InitLoad ==
    /\ op = "load"
    /\ specifier = <<>>
    /\ parentURL = <<>>
    /\ tsconfigPathsMatcher = [present |-> FALSE, paths |-> <<>>]
    /\ stack = <<>>
    /\ ret = NoReturn
    /\ calls = <<>>
    /\ matcherCalls = <<>>
    /\ oddErrors = 0
    /\ loadUrl \in Urls
    /\ context \in Attributes
    /\ sendToParent \in BOOLEAN
    /\ mainThreadPort \in BOOLEAN
    /\ fileMatcher \in BOOLEAN
    /\ messages = <<>>
    /\ loadPc = "start"
    /\ loaded = NoLoaded
    /\ loadCode = <<>>
    /\ result = NoResult
    /\ trace = <<>>
    /\ NoImport
    /\ NoTrial
    /\ parked = NoParked

NoResolve ==
    /\ specifier = <<>>
    /\ parentURL = <<>>
    /\ tsconfigPathsMatcher = [present |-> FALSE, paths |-> <<>>]
    /\ stack = <<>>
    /\ ret = NoReturn
    /\ calls = <<>>
    /\ matcherCalls = <<>>
    /\ oddErrors = 0

InitImport ==
    /\ op = "import"
    /\ NoResolve
    /\ NoLoad
    /\ imported \in {n \in Namespaces : IsNamespace(n)}
    /\ handled = NotHandled
    /\ NoTrial
    /\ parked = NoParked

InitCandidates ==
    /\ op = "candidates"
    /\ NoResolve
    /\ NoLoad
    /\ NoImport
    /\ trialOf \in [fn : {"tryExtensions", "tryDirectory"}, specifier : QuerySpecifiers]
    /\ candidates = <<>>
    /\ parked = NoParked

Init == InitResolve \/ InitLoad \/ InitImport \/ InitCandidates

Next ==
    \/ ResolveStart
    \/ ResolveDirectoryReturn
    \/ ResolvePathsCall
    \/ ResolvePathsReturn
    \/ ResolveSibling
    \/ ResolveLiteral
    \/ ResolveDirectoryFallbackReturn
    \/ ResolveExtensionsFallbackReturn
    \/ TryDirectoryStart
    \/ TryDirectoryIndexReturn
    \/ TryDirectoryLiteralReturn
    \/ TryExtensionsCandidate
    \/ LoadStart
    \/ LoadNextLoadThrows
    \/ LoadCommonJs
    \/ LoadCommonJsReadFile
    \/ LoadReadFileReturn
    \/ LoadTransform
    \/ LoadTransformReturn
    \/ LoadPassThrough
    \/ HandleDynamicImport
    \/ ExtensionCandidates
    \/ IndexCandidates

Spec == Init /\ [][Next]_vars

\* ------------------------------------------------- two calls in flight

\* What a call of a hook keeps in its own frame: arguments, locals, the place
\* it is at, and what the host and the matcher answered it.
Locals ==
    [op |-> op, specifier |-> specifier, parentURL |-> parentURL,
     paths |-> tsconfigPathsMatcher.paths, stack |-> stack, ret |-> ret,
     calls |-> calls, matcherCalls |-> matcherCalls, oddErrors |-> oddErrors,
     loadUrl |-> loadUrl, context |-> context, loadPc |-> loadPc, loaded |-> loaded,
     loadCode |-> loadCode, result |-> result, trace |-> trace, messages |-> messages]

\* A call of resolve the host is about to make.
ResolveCall(s, parent) ==
    [op |-> "resolve", specifier |-> s, parentURL |-> parent,
     paths |-> <<>>, stack |-> <<Frame("resolve", s, FALSE)>>, ret |-> NoReturn,
     calls |-> <<>>, matcherCalls |-> <<>>, oddErrors |-> MaxOddErrors,
     loadUrl |-> <<>>, context |-> [defined |-> FALSE, type |-> "", other |-> ""],
     loadPc |-> "idle", loaded |-> NoLoaded,
     loadCode |-> <<>>, result |-> NoResult, trace |-> <<>>, messages |-> <<>>]

\* A call of load the host is about to make.
LoadCall(u, attributes) ==
    [op |-> "load", specifier |-> <<>>, parentURL |-> <<>>,
     paths |-> <<>>, stack |-> <<>>, ret |-> NoReturn,
     calls |-> <<>>, matcherCalls |-> <<>>, oddErrors |-> 0,
     loadUrl |-> u, context |-> attributes, loadPc |-> "start", loaded |-> NoLoaded,
     loadCode |-> <<>>, result |-> NoResult, trace |-> <<>>, messages |-> <<>>]

\* The calls that are put in flight together, the one that runs first and the
\* other: two calls of resolve ('pkg/a.js' and './a/' from a typed-superset
\* module), a call of resolve and a call of load, and two calls of load
\* ('file:///r/a.ts' and 'file:///r/a.cjs').  The delegate fails a call of
\* resolve here with ModuleNotFound only (and with UnsupportedDirectoryImport
\* for the specifier the host asked for).
CallsInFlight ==
    LET typed == fileProtocol \o <<"/", "r", "/", "m", ".ts">>
        mapped == ResolveCall(<<"pkg", "/", "a", ".js">>, typed)
        directory == ResolveCall(<<".", "/", "a", "/">>, typed)
        source == LoadCall(fileProtocol \o <<"/", "r", "/", "a", ".ts">>,
                           [defined |-> TRUE, type |-> "", other |-> "x"])
        classic == LoadCall(fileProtocol \o <<"/", "r", "/", "a", ".cjs">>,
                            [defined |-> FALSE, type |-> "", other |-> ""])
    IN {<<mapped, directory>>, <<directory, source>>, <<classic, directory>>,
        <<source, classic>>}

\* The call has returned or thrown.
Settled(call) ==
    IF call.op = "resolve" THEN call.stack = <<>> ELSE call.loadPc = "done"

\* Mutant: the paths the matcher answered are kept in a binding of the module.
ResumedPaths_Shared(call, matcher) == matcher.paths

\* const possiblePaths = tsconfigPathsMatcher(specifier) is a local of the
\* call of resolve: a call that resumes finds its own.
ResumedPaths(call, matcher) == call.paths

\* The frame of a call becomes the running one.
Resume(call) ==
    /\ op' = call.op
    /\ specifier' = call.specifier
    /\ parentURL' = call.parentURL
    /\ tsconfigPathsMatcher' =
            [tsconfigPathsMatcher EXCEPT !.paths = ResumedPaths(call, tsconfigPathsMatcher)]
    /\ stack' = call.stack
    /\ ret' = call.ret
    /\ calls' = call.calls
    /\ matcherCalls' = call.matcherCalls
    /\ oddErrors' = call.oddErrors
    /\ loadUrl' = call.loadUrl
    /\ context' = call.context
    /\ loadPc' = call.loadPc
    /\ loaded' = call.loaded
    /\ loadCode' = call.loadCode
    /\ result' = call.result
    /\ trace' = call.trace
    /\ messages' = call.messages

\* The running call is suspended at an await, or has settled, and the event
\* loop goes on with the other call; the module's bindings stay as they are.
Switch ==
    /\ parked # NoParked
    /\ ~Settled(parked)
    /\ parked' = Locals
    /\ Resume(parked)
    /\ UNCHANGED <<sendToParent, mainThreadPort, fileMatcher, importVars, trialVars>>

InitConcurrent ==
    /\ \E pair \in CallsInFlight :
        LET running == pair[1] IN
        /\ parked = pair[2]
        /\ op = running.op
        /\ specifier = running.specifier
        /\ parentURL = running.parentURL
        /\ stack = running.stack
        /\ ret = running.ret
        /\ calls = running.calls
        /\ matcherCalls = running.matcherCalls
        /\ oddErrors = running.oddErrors
        /\ loadUrl = running.loadUrl
        /\ context = running.context
        /\ loadPc = running.loadPc
        /\ loaded = running.loaded
        /\ loadCode = running.loadCode
        /\ result = running.result
        /\ trace = running.trace
        /\ messages = running.messages
    /\ tsconfigPathsMatcher = [present |-> TRUE, paths |-> <<>>]
    /\ sendToParent \in BOOLEAN
    /\ mainThreadPort \in BOOLEAN
    /\ fileMatcher = TRUE
    /\ NoImport
    /\ NoTrial

NextConcurrent ==
    \/ ResolveStart
    \/ ResolveDirectoryReturn
    \/ ResolvePathsCall
    \/ ResolvePathsReturn
    \/ ResolveSibling
    \/ ResolveLiteral
    \/ ResolveDirectoryFallbackReturn
    \/ ResolveExtensionsFallbackReturn
    \/ TryDirectoryStart
    \/ TryDirectoryIndexReturn
    \/ TryDirectoryLiteralReturn
    \/ TryExtensionsCandidate
    \/ LoadStart
    \/ LoadNextLoadThrows
    \/ LoadCommonJs
    \/ LoadCommonJsReadFile
    \/ LoadReadFileReturn
    \/ LoadTransform
    \/ LoadTransformReturn
    \/ LoadPassThrough
    \/ Switch

SpecConcurrent == InitConcurrent /\ [][NextConcurrent]_vars

\* ------------------------------------------- a call of resolve that goes on

\* The steps of a call of resolve.
ResolveNext ==
    \/ ResolveStart
    \/ ResolveDirectoryReturn
    \/ ResolvePathsCall
    \/ ResolvePathsReturn
    \/ ResolveSibling
    \/ ResolveLiteral
    \/ ResolveDirectoryFallbackReturn
    \/ ResolveExtensionsFallbackReturn
    \/ TryDirectoryStart
    \/ TryDirectoryIndexReturn
    \/ TryDirectoryLiteralReturn
    \/ TryExtensionsCandidate

\* The host calls resolve from a typed-superset module outside the
\* dependencies: the requester for which resolve does the most (path mapping
\* and typed siblings both apply).
InitSettling ==
    /\ InitResolve
    /\ tsExtensionsPattern(parentURL)
    /\ ~InNodeModules(parentURL)

\* A call of resolve whose awaited calls all settle: the delegate answers
\* every call, and the host runs every continuation that is ready, so a step
\* that can be taken is taken.
SpecSettling == InitSettling /\ [][ResolveNext]_vars /\ WF_vars(ResolveNext)

\* ------------------------------------------------ reading the call log

\* The call of resolve the host made has returned or thrown.
Done == op = "resolve" /\ stack = <<>>

Asked(c) == \E k \in 1..Len(calls) : calls[k].specifier = c

\* The place in the log where the delegate was first asked for c.
AskedAt(c) ==
    CHOOSE k \in 1..Len(calls) :
        calls[k].specifier = c /\ \A j \in 1..(k - 1) : calls[j].specifier # c

Answer(c) == calls[AskedAt(c)].out

Resolvable(c) == Asked(c) /\ Answer(c).ok

Failed(c) == Asked(c) /\ ~Answer(c).ok

\* The url is a file's.
IsFileUrl(u) == Len(u) >= 3 /\ u[1] = "file:" /\ u[2] = "/" /\ u[3] = "/"

\* The result resolve hands out for an answer of the delegate.
ResultOf(out) ==
    [url |-> out.value.url,
     format |-> IF out.value.format = "" /\ IsFileUrl(out.value.url)
                THEN getFormatFromFileUrl(out.value.url)
                ELSE out.value.format]

\* The calls of resolve that asked the delegate for something.
ResolveCalls == {calls[k].resolve : k \in 1..Len(calls)}

\* ------------------------------------------------------------------- C1

ClassicExtensions == {".js", ".jsx", ".mjs", ".cjs"}

\* A call of resolve from typed-superset source for a specifier that ends in
\* a classic extension and is no directory specifier.
SiblingCase(s) ==
    /\ tsExtensionsPattern(parentURL)
    /\ Len(s) > 0
    /\ s[Len(s)] \in ClassicExtensions
    /\ ~isDirectoryPattern(s)

SoftFailed(c) ==
    /\ Failed(c)
    /\ Answer(c).error.code \in {ERR_MODULE_NOT_FOUND, ERR_PACKAGE_PATH_NOT_EXPORTED}

\* C1 as stated: a resolve call from typed-superset source for a specifier
\* with a classic extension returns the first typed sibling the delegate can
\* resolve and never asks for the literal specifier.  A sibling that was never
\* asked may be one the delegate can resolve, so the call has to end either
\* with every sibling asked and failed, or with the first resolvable one.
C1_AsStated ==
    (Done /\ SiblingCase(specifier)) =>
        LET sib == resolveTsPath(specifier)
        IN \/ \A j \in 1..Len(sib) : Failed(sib[j])
           \/ \E j \in 1..Len(sib) :
                /\ Resolvable(sib[j])
                /\ \A i \in 1..(j - 1) : Failed(sib[i])
                /\ ret = Value(ResultOf(Answer(sib[j])))
                /\ ~Asked(specifier)

\* C1, amended: in every resolve call (nested ones too) from typed-superset
\* source for a specifier r with a classic extension, once the path-mapping
\* step is over without a result the siblings go to the delegate in generator
\* order, each only after the ones before it failed with ModuleNotFound or
\* PackagePathNotExported; a sibling that resolves is the result of the whole
\* call and nothing is asked after it; a sibling failing with another error
\* ends the call of r with that error; the literal r is asked only after every
\* sibling failed with one of the two errors, and then it is asked.
C1_SiblingsFirst ==
    /\ \A k \in 1..Len(calls) :
        LET r == calls[k].of
            c == calls[k].specifier
            sib == resolveTsPath(r)
        IN (calls[k].fn = "resolve" /\ SiblingCase(r)) =>
            /\ c = r \/ \E j \in 1..Len(sib) : c = sib[j]
            /\ c = r => \A j \in 1..Len(sib) : SoftFailed(sib[j]) /\ AskedAt(sib[j]) < k
            /\ \A j \in 1..Len(sib) :
                c = sib[j] =>
                    /\ \A i \in 1..(j - 1) : SoftFailed(sib[i]) /\ AskedAt(sib[i]) < k
                    /\ calls[k].out.ok =>
                        /\ k = Len(calls)
                        /\ Done => ret = Value(ResultOf(calls[k].out))
                    /\ (~calls[k].out.ok /\ ~SoftFailed(c)) =>
                        /\ \A l \in (k + 1)..Len(calls) : calls[l].resolve # r
                        /\ r = specifier => k = Len(calls)
                        /\ (Done /\ r = specifier) => ret = Error(calls[k].out.error)
    /\ Done =>
        \A r \in ResolveCalls \cup {specifier} :
            LET sib == resolveTsPath(r)
            IN SiblingCase(r) =>
                /\ Asked(sib[1]) \/ (ret.kind = "value" /\ calls[Len(calls)].resolve # r)
                /\ \A j \in 1..Len(sib) :
                    SoftFailed(sib[j]) =>
                        IF j < Len(sib) THEN Asked(sib[j + 1]) ELSE Asked(r)

\* The first sibling failed, the second resolved and is the result.
C1_Witness ==
    /\ Done
    /\ SiblingCase(specifier)
    /\ Len(resolveTsPath(specifier)) = 2
    /\ SoftFailed(resolveTsPath(specifier)[1])
    /\ Resolvable(resolveTsPath(specifier)[2])
    /\ ret = Value(ResultOf(Answer(resolveTsPath(specifier)[2])))
    /\ ~Asked(specifier)

\* ------------------------------------------------------------------- C2

\* The extension order of the index files, as the claim lists it.
IndexFiles == <<".js", ".json", ".ts", ".tsx", ".jsx">>

\* s/index.js, s/index.json, ... and s.js, s.json, ... for an s without query.
IndexFile(s, j) == s \o <<"/", "index", IndexFiles[j]>>

Suffixed(s, j) == s \o <<IndexFiles[j]>>

\* The place in the log where resolve asked for the literal r and the delegate
\* failed with UnsupportedDirectoryImport, 0 when there is none.
LiteralDirectoryFailure(r) ==
    LET hits == {k \in 1..Len(calls) :
                    /\ calls[k].fn = "resolve"
                    /\ calls[k].of = r
                    /\ calls[k].specifier = r
                    /\ ~calls[k].out.ok
                    /\ calls[k].out.error.code = ERR_UNSUPPORTED_DIR_IMPORT}
    IN IF hits = {} THEN 0 ELSE CHOOSE k \in hits : \A l \in hits : k <= l

\* A call of resolve (nested ones too) for a specifier that is no directory
\* specifier and holds no query, whose literal failed as a directory import.
DirectoryCase(r) ==
    /\ ~isDirectoryPattern(r)
    /\ IndexOf(r, "?") = 0
    /\ LiteralDirectoryFailure(r) > 0

\* C2: when the literal resolution of a specifier s without trailing separator
\* fails with UnsupportedDirectoryImport, the index candidates s/index.js,
\* s/index.json, s/index.ts, s/index.tsx, s/index.jsx go to the delegate in
\* that order, each only after the ones before it failed; the first one that
\* resolves is the last thing asked and is what resolve returns; s.js ... s.jsx
\* are asked only after all five index candidates failed; and a finished call
\* has either returned an index candidate or seen all five fail.
C2_IndexFirst ==
    \A r \in ResolveCalls :
        DirectoryCase(r) =>
            /\ \A j \in 1..Len(IndexFiles) :
                Asked(IndexFile(r, j)) =>
                    /\ LiteralDirectoryFailure(r) < AskedAt(IndexFile(r, j))
                    /\ \A i \in 1..(j - 1) :
                        /\ Failed(IndexFile(r, i))
                        /\ AskedAt(IndexFile(r, i)) < AskedAt(IndexFile(r, j))
                    /\ Resolvable(IndexFile(r, j)) =>
                        /\ AskedAt(IndexFile(r, j)) = Len(calls)
                        /\ Done => ret = Value(ResultOf(Answer(IndexFile(r, j))))
            /\ \A j \in 1..Len(IndexFiles) :
                Asked(Suffixed(r, j)) =>
                    \A i \in 1..Len(IndexFiles) :
                        /\ Failed(IndexFile(r, i))
                        /\ AskedAt(IndexFile(r, i)) < AskedAt(Suffixed(r, j))
            /\ Done =>
                /\ Asked(IndexFile(r, 1))
                /\ \A j \in 1..(Len(IndexFiles) - 1) :
                    Failed(IndexFile(r, j)) => Asked(IndexFile(r, j + 1))

\* './a' is a directory, './a/index.js' is not there, './a/index.json' is and
\* is the result.
C2_Witness ==
    /\ Done
    /\ DirectoryCase(specifier)
    /\ Failed(IndexFile(specifier, 1))
    /\ Resolvable(IndexFile(specifier, 2))
    /\ ret = Value(ResultOf(Answer(IndexFile(specifier, 2))))

\* ------------------------------------------------------------------- C3

\* A specifier made from a substitution path of the rules: the file url of
\* the path, or a trial candidate built on it.
IsSubstituted(c) ==
    \E j \in 1..Len(SubstitutionPaths) :
        StartsWith(c, <<"file:", "/", "/">> \o SubstitutionPaths[j])

\* C3: in a resolve call whose parentURL contains '/node_modules/', nested
\* calls included, the matcher is never invoked and no substituted path goes
\* to the delegate; when nothing the delegate is asked for resolves, the call
\* fails.
C3_NoMappingInDependencies ==
    Includes(parentURL, <<"/", "node_modules", "/">>) =>
        /\ matcherCalls = <<>>
        /\ \A k \in 1..Len(calls) : ~IsSubstituted(calls[k].specifier)
        /\ (Done /\ \A k \in 1..Len(calls) : ~calls[k].out.ok) => ret.kind = "error"

\* 'pkg/a.js' requested from inside node_modules with rules configured: the
\* delegate did not find it and the call failed.
C3_Witness ==
    /\ Done
    /\ Includes(parentURL, <<"/", "node_modules", "/">>)
    /\ tsconfigPathsMatcher.present
    /\ specifier = <<"pkg", "/", "a", ".js">>
    /\ Failed(specifier)
    /\ ret.kind = "error"

\* ------------------------------------------------------------------- C4

Schemes == {"file:", "node:", "data:"}

\* A bare specifier: not relative, not an absolute path, not a URL.
IsBare(s) ==
    /\ Len(s) > 0
    /\ ~(Len(s) >= 2 /\ s[1] = "." /\ s[2] = "/")
    /\ ~(Len(s) >= 3 /\ s[1] = "." /\ s[2] = "." /\ s[3] = "/")
    /\ s[1] # "/"
    /\ s[1] \notin Schemes

\* The call the host made is for a bare specifier, from a module outside any
\* dependency directory, with rules configured.
BareCase ==
    /\ op = "resolve"
    /\ IsBare(specifier)
    /\ tsconfigPathsMatcher.present
    /\ ~Includes(parentURL, <<"/", "node_modules", "/">>)

\* The specifiers resolve calls itself with: the file urls of the paths the
\* matcher answered, in its order.
Substitutions ==
    [j \in 1..Len(tsconfigPathsMatcher.paths) |->
        <<"file:", "/", "/">> \o tsconfigPathsMatcher.paths[j]]

\* Which attempt a delegate call belongs to: the number of the substitution,
\* or one more for the work on the original specifier.
Owner(k) ==
    IF \E j \in 1..Len(Substitutions) : calls[k].resolve = Substitutions[j]
    THEN CHOOSE j \in 1..Len(Substitutions) : calls[k].resolve = Substitutions[j]
    ELSE Len(Substitutions) + 1

\* The matcher is asked once, for the specifier; each substitution gets a
\* resolution of its own, in the matcher's order (the attempts follow one
\* another in the log, none left out), with the extension trial
\* after a literal that was not found and the directory trial after a literal
\* that is a directory; a substitution that resolves ends the call with its
\* result; the original specifier is worked on after every substitution
\* failed, and then it is.
SubstitutionsFirst ==
    /\ Len(matcherCalls) <= 1
    /\ (calls # <<>> \/ Done) => matcherCalls = <<specifier>>
    /\ \A k \in 1..Len(calls) :
        /\ calls[k].resolve = specifier \/ Owner(k) <= Len(Substitutions)
        /\ k = 1 => Owner(k) = 1
        /\ k > 1 => Owner(k) \in {Owner(k - 1), Owner(k - 1) + 1}
        /\ (Owner(k) <= Len(Substitutions) /\ calls[k].out.ok) =>
            /\ k = Len(calls)
            /\ Done => ret = Value(ResultOf(calls[k].out))
        /\ ( /\ Owner(k) <= Len(Substitutions)
             /\ calls[k].fn = "resolve"
             /\ calls[k].specifier = calls[k].resolve
             /\ ~calls[k].out.ok
             /\ calls[k].out.error.code \in {ERR_MODULE_NOT_FOUND, ERR_UNSUPPORTED_DIR_IMPORT} ) =>
            /\ Done => k < Len(calls)
            /\ k < Len(calls) =>
                /\ calls[k + 1].fn = "tryExtensions"
                /\ calls[k + 1].resolve = calls[k].resolve
                /\ calls[k + 1].of =
                     IF calls[k].out.error.code = ERR_MODULE_NOT_FOUND
                     THEN calls[k].specifier
                     ELSE calls[k].specifier \o <<"/", "index">>
    /\ Done =>
        \A j \in 1..(Len(Substitutions) + 1) :
            (\A k \in 1..Len(calls) : Owner(k) < j => ~calls[k].out.ok) =>
                \E k \in 1..Len(calls) : Owner(k) = j

\* C4 as stated: for every bare specifier requested from outside a dependency
\* directory with rules configured, the substitutions are resolved first, in
\* order and in full, and the original specifier after they all failed.
C4_AsStated == BareCase => SubstitutionsFirst

\* C4, amended: the same for a bare specifier that is not a directory-form
\* specifier; a directory-form one goes to the directory trial and the matcher
\* is not asked.
C4_SubstitutionsFirst ==
    /\ (BareCase /\ ~isDirectoryPattern(specifier)) => SubstitutionsFirst
    /\ (BareCase /\ isDirectoryPattern(specifier)) => matcherCalls = <<>>

\* Two substitutions: the first was not found, nor was any of its extension
\* candidates; the second resolved and is the result.
C4_Witness ==
    /\ Done
    /\ BareCase
    /\ ~isDirectoryPattern(specifier)
    /\ Len(Substitutions) = 2
    /\ Failed(Substitutions[1])
    /\ Answer(Substitutions[1]).error.code = ERR_MODULE_NOT_FOUND
    /\ Failed(Substitutions[1] \o <<".jsx">>)
    /\ \E k \in 1..Len(calls) : Owner(k) = 2 /\ calls[k].out.ok
    /\ ret.kind = "value"

\* ------------------------------------------------------------------- C5

ModuleExtensions == {".cjs", ".mjs", ".cts", ".mts"}

AllExtensions == ModuleExtensions \cup {".js", ".json", ".ts", ".tsx", ".jsx"}

\* The last token of the path of a specifier.
PathEnd(s) ==
    LET p == IF IndexOf(s, "?") = 0 THEN s ELSE SubSeq(s, 1, IndexOf(s, "?") - 1)
    IN IF Len(p) = 0 THEN "" ELSE p[Len(p)]

\* The call the host made is for a relative specifier that has no extension
\* or is a directory-form specifier.
ExtensionlessCase ==
    /\ op = "resolve"
    /\ Len(specifier) >= 2 /\ specifier[1] = "." /\ specifier[2] = "/"
    /\ isDirectoryPattern(specifier) \/ PathEnd(specifier) \notin AllExtensions

\* The delegate found nothing: every candidate was not found, the literal was
\* not found or is a directory.
NothingFound ==
    \A k \in 1..Len(calls) :
        /\ ~calls[k].out.ok
        /\ \/ calls[k].out.error.code = ERR_MODULE_NOT_FOUND
           \/ /\ calls[k].specifier = specifier
              /\ calls[k].out.error.code = ERR_UNSUPPORTED_DIR_IMPORT

\* C5: for an extensionless or directory-form specifier the delegate is never
\* asked for a candidate ending in .cjs, .mjs, .cts or .mts, and when no
\* candidate is found resolve fails with a ModuleNotFound error whose message
\* holds none of the trial extensions.
C5_NoModuleExtensions ==
    ExtensionlessCase =>
        /\ \A k \in 1..Len(calls) : PathEnd(calls[k].specifier) \notin ModuleExtensions
        /\ (Done /\ NothingFound) =>
            /\ ret.kind = "error"
            /\ ret.error.code = ERR_MODULE_NOT_FOUND
            /\ \A i \in 1..Len(ret.error.message) :
                ret.error.message[i] \notin AllExtensions

\* './a/': none of the five index candidates was found and the call failed.
C5_Witness ==
    /\ Done
    /\ ExtensionlessCase
    /\ isDirectoryPattern(specifier)
    /\ Len(calls) = 5
    /\ NothingFound
    /\ ret.kind = "error"

\* The same for './a': not found, nor with any of the five extensions.
C5_WitnessExtensionless ==
    /\ Done
    /\ ExtensionlessCase
    /\ ~isDirectoryPattern(specifier)
    /\ Len(calls) = 6
    /\ NothingFound
    /\ ret.kind = "error"

\* ------------------------------------------------------------------- C6

RecognisedKinds ==
    {ERR_MODULE_NOT_FOUND, ERR_UNSUPPORTED_DIR_IMPORT, ERR_PACKAGE_PATH_NOT_EXPORTED,
     ERR_PACKAGE_IMPORT_NOT_DEFINED}

\* C6: a delegate call that fails with an error of another kind than
\* ModuleNotFound, UnsupportedDirectoryImport, PackagePathNotExported and
\* PackageImportNotDefined is the last delegate call of the resolve call, and
\* its error is what resolve throws.
C6_OtherKindsFatal ==
    \A k \in 1..Len(calls) :
        (~calls[k].out.ok /\ calls[k].out.error.code \notin RecognisedKinds) =>
            /\ k = Len(calls)
            /\ Done => ret = Error(calls[k].out.error)

\* ------------------------------------------------------------------- C7

\* C7: a load call whose delegate answered format 'commonjs' is never at a
\* suspension point: it does not wait for readFile nor for the asynchronous
\* transform.
C7_CommonJsSynchronous ==
    (op = "load" /\ loaded.format = "commonjs") => loadPc \notin {"readFile", "transform"}

\* ------------------------------------------------------------------- C8

Count(seq, x) == Cardinality({k \in 1..Len(seq) : seq[k] = x})

Works == {"transformDynamicImport", "transformSync", "transform"}

\* C8: a load call past its head has called nextLoad exactly once; it does at
\* most one of the interop rewrite, the synchronous transform and the
\* asynchronous transform, and that one once, after nextLoad; and a call that
\* ended with the transform's error did nothing after the transform and
\* threw that error.
C8_OneBranch ==
    op = "load" =>
        /\ Count(trace, "nextLoad") = (IF loadPc = "start" THEN 0 ELSE 1)
        /\ Cardinality({k \in 1..Len(trace) : trace[k] \in Works}) <= 1
        /\ \A k \in 1..Len(trace) :
            trace[k] \in Works =>
                \E j \in 1..(k - 1) : trace[j] = "nextLoad"
        /\ (loadPc = "done" /\ result.error = "SyntaxError") =>
            /\ result.kind = "error"
            /\ trace[Len(trace)] \in {"transformSync", "transform"}
        /\ loadPc = "done" => result.kind \in {"value", "error"}

\* A commonjs text with module syntax was rejected by the synchronous
\* transform and load threw.
C8_Witness ==
    /\ op = "load"
    /\ loadPc = "done"
    /\ loaded.format = "commonjs"
    /\ result = Threw("SyntaxError")
    /\ Count(trace, "transformSync") = 1

\* ------------------------------------------------------------------- C9

\* C9: what resolve returns is the answer of the last delegate call with the
\* format settled: inferred when the delegate left it empty and the url is a
\* file's, and otherwise url and format as the delegate answered.
C9_FormatInferred ==
    (Done /\ ret.kind = "value") =>
        /\ calls # <<>>
        /\ calls[Len(calls)].out.ok
        /\ LET answer == calls[Len(calls)].out.value
           IN /\ ret.value.url = answer.url
              /\ (answer.format = "" /\ IsFileUrl(answer.url)) =>
                    ret.value.format = getFormatFromFileUrl(answer.url)
              /\ (answer.format # "" \/ ~IsFileUrl(answer.url)) =>
                    ret.value.format = answer.format

\* An extension candidate resolved without a format and got the inferred one.
C9_Witness ==
    /\ Done
    /\ ret.kind = "value"
    /\ calls[Len(calls)].fn = "tryExtensions"
    /\ calls[Len(calls)].out.value.format = ""
    /\ IsFileUrl(calls[Len(calls)].out.value.url)
    /\ ret.value.format = "json"

\* A candidate resolved with a format, which is returned as it came.
C9_WitnessSupplied ==
    /\ Done
    /\ ret.kind = "value"
    /\ calls[Len(calls)].fn = "tryExtensions"
    /\ calls[Len(calls)].out.value.format = "module"
    /\ PathEnd(calls[Len(calls)].out.value.url) = ".json"
    /\ ret.value.format = "module"

\* ------------------------------------------------------------------ C10

\* C10: the matcher is invoked for bare specifiers only, never for a relative
\* one, an absolute path or a URL.
C10_OnlyBareMapped ==
    \A k \in 1..Len(matcherCalls) : IsBare(matcherCalls[k])

\* ------------------------------------------------------------------ C11

\* The handler has run on the namespace of a dynamic import.
Handled == op = "import" /\ handled # "nothing"

\* N has exactly one own enumerable key, 'default', and N.default is a
\* non-null object that carries '__esModule'.
MarkedDefaultOnly(n) ==
    /\ Len(n.keys) = 1
    /\ n.keys[1] = "default"
    /\ n.default.type = "object"
    /\ n.default.esModule

\* C11: the interop handler returns N.default if and only if N has exactly
\* one own enumerable key, 'default', holding a non-null object with the
\* '__esModule' marker; in every other case it returns N itself.
C11_UnwrapsMarkedDefault ==
    Handled =>
        /\ handled = "imported[d]" <=> MarkedDefaultOnly(imported)
        /\ handled = "imported" <=> ~MarkedDefaultOnly(imported)

\* {default: X} with X a marked object came back as X.
C11_Witness ==
    /\ Handled
    /\ imported.keys = <<"default">>
    /\ imported.default = [type |-> "object", truthy |-> TRUE, esModule |-> TRUE]
    /\ handled = "imported[d]"

\* ------------------------------------------------------------------ C12

\* The top-level keys of a JSON text that is one object with one member.
JsonKeys(text) ==
    IF Len(text) = 5 /\ text[1] = "{" /\ text[3] = ":" /\ text[5] = "}"
    THEN {text[2]}
    ELSE {}

\* The names of the namespace the host makes of what load returned: a 'json'
\* module has its value under 'default' and nothing else; a JSON text that the
\* transform turned into a module exports 'default' and every top-level key.
NamespaceKeys(r) ==
    IF r.format = "json"
    THEN {"default"}
    ELSE IF /\ r.format = "module"
            /\ Len(r.source) > 1
            /\ r.source[1] = "transformed"
         THEN {"default"} \cup JsonKeys(SubSeq(r.source, 2, Len(r.source)))
         ELSE {}

\* load of a JSON file has returned what it made of the host's JSON text.
JsonLoaded ==
    /\ op = "load"
    /\ loadPc = "done"
    /\ Len(loadUrl) > 0 /\ loadUrl[Len(loadUrl)] = ".json"
    /\ loaded.format = "json"
    /\ JsonKeys(loaded.source) # {}
    /\ result.kind = "value"

\* C12: the namespace of an imported JSON file has 'default' and every
\* top-level key of the JSON text as a named export.
C12_JsonNamedExports ==
    JsonLoaded => ({"default"} \cup JsonKeys(loaded.source)) \subseteq NamespaceKeys(result)

\* ------------------------------------------------------------------ C13

\* The text of a specifier before its first '?'.
PathOf(s) == IF IndexOf(s, "?") = 0 THEN s ELSE SubSeq(s, 1, IndexOf(s, "?") - 1)

\* The error of the host for a candidate of r, as it reads once the injected
\* part of the candidate is taken out of its message and stack.
AsIfFor(error, r) ==
    LET message == <<error.code, "'">> \o PathOf(r) \o <<"'", "imported from">>
    IN [code |-> error.code, message |-> message,
        stack |-> <<"Error:">> \o message \o <<"at">>]

\* The delegate call k is resolve's own attempt at the literal specifier, and
\* it failed.
LiteralFailure(k) ==
    /\ calls[k].fn = "resolve"
    /\ calls[k].specifier = calls[k].of
    /\ ~calls[k].out.ok

\* C13: when the literal resolution fails, UnsupportedDirectoryImport is
\* followed by the directory trial (the index candidates come next),
\* ModuleNotFound by the extension trial, and any other error by no further
\* delegate call of that resolve call.  The call the host made then throws:
\* the literal's own error, untouched, after a failed extension trial, after a
\* directory trial that threw PackageImportNotDefined and after an error of
\* another kind; and the directory trial's error after a directory trial that
\* threw anything else.
C13_LiteralFallback ==
    \A k \in 1..Len(calls) :
        LET r == calls[k].of
            error == calls[k].out.error
        IN LiteralFailure(k) =>
            /\ (error.code = ERR_UNSUPPORTED_DIR_IMPORT /\ IndexOf(r, "?") = 0) =>
                /\ Done => k < Len(calls)
                /\ k < Len(calls) =>
                    /\ calls[k + 1].fn = "tryExtensions"
                    /\ calls[k + 1].of = r \o <<"/", "index">>
                    /\ calls[k + 1].resolve = r
            /\ error.code = ERR_MODULE_NOT_FOUND =>
                /\ Done => k < Len(calls)
                /\ k < Len(calls) =>
                    /\ calls[k + 1].fn = "tryExtensions"
                    /\ calls[k + 1].of = r
                    /\ calls[k + 1].resolve = r
            /\ error.code \notin {ERR_UNSUPPORTED_DIR_IMPORT, ERR_MODULE_NOT_FOUND} =>
                \A l \in (k + 1)..Len(calls) : calls[l].resolve # r
            /\ (r = specifier /\ Done /\ ret.kind = "error") =>
                IF /\ error.code = ERR_UNSUPPORTED_DIR_IMPORT
                   /\ calls[k + 1].out.error.code # ERR_PACKAGE_IMPORT_NOT_DEFINED
                THEN ret.error = AsIfFor(calls[k + 1].out.error, r)
                ELSE ret.error = error

\* './a' is a directory, its first index candidate failed with
\* PackageImportNotDefined, nothing else was found: resolve threw the
\* literal's error.
C13_Witness ==
    /\ Done
    /\ calls # <<>>
    /\ LiteralFailure(1)
    /\ calls[1].of = specifier
    /\ calls[1].out.error.code = ERR_UNSUPPORTED_DIR_IMPORT
    /\ Len(calls) = 11
    /\ calls[2].out.error.code = ERR_PACKAGE_IMPORT_NOT_DEFINED
    /\ ret = Error(calls[1].out.error)

\* ------------------------------------------------------------------ C14

\* The delegate call k is the attempt at the literal specifier made by a call
\* of resolve on a substitution path, and it failed.
NestedLiteralFailure(k) ==
    /\ LiteralFailure(k)
    /\ calls[k].resolve # specifier

\* C14 as stated: a call of resolve on a substitution path whose literal
\* resolution failed asks the delegate for nothing more: no directory trial,
\* no extension trial.
C14_AsStated ==
    \A k \in 1..Len(calls) :
        NestedLiteralFailure(k) =>
            \A l \in (k + 1)..Len(calls) : calls[l].resolve # calls[k].resolve

\* C14, amended: a call of resolve on a substitution path runs without the
\* recursion guard, and when its literal resolution fails it goes on as the
\* outermost call does: the extension trial follows ModuleNotFound, the
\* directory trial follows UnsupportedDirectoryImport, and only an error of
\* another kind ends it at once.
C14_NestedFallback ==
    /\ \A i \in 1..Len(stack) : stack[i].fn = "resolve" => ~stack[i].recursiveCall
    /\ \A k \in 1..Len(calls) :
        LET r == calls[k].of
            code == calls[k].out.error.code
            trial == IF code = ERR_MODULE_NOT_FOUND THEN r ELSE r \o <<"/", "index">>
        IN NestedLiteralFailure(k) =>
            IF code \in {ERR_MODULE_NOT_FOUND, ERR_UNSUPPORTED_DIR_IMPORT}
            THEN /\ Done => k < Len(calls)
                 /\ k < Len(calls) =>
                     /\ calls[k + 1].fn = "tryExtensions"
                     /\ calls[k + 1].of = trial
                     /\ calls[k + 1].resolve = r
            ELSE \A l \in (k + 1)..Len(calls) : calls[l].resolve # r

\* The substitution '/b/f' was not found as it is, '/b/f.js' was not either,
\* '/b/f.json' was, and is the result of the whole call.
C14_Witness ==
    /\ Done
    /\ ret.kind = "value"
    /\ \E k \in 1..(Len(calls) - 2) :
        /\ NestedLiteralFailure(k)
        /\ calls[k].out.error.code = ERR_MODULE_NOT_FOUND
        /\ calls[k + 1].fn = "tryExtensions" /\ ~calls[k + 1].out.ok
        /\ calls[k + 2].fn = "tryExtensions" /\ calls[k + 2].out.ok
        /\ calls[k + 2].of = calls[k].of
        /\ k + 2 = Len(calls)

\* ------------------------------------------------------------------ C15

\* The order in which the extension trial takes the extensions.
TrialOrder == <<".js", ".json", ".ts", ".tsx", ".jsx">>

\* The text after the first '?' of a specifier, with the '?', when there is
\* one and something follows it before a second '?'.
QueryOf(s) ==
    LET i == IndexOf(s, "?")
        rest == SubSeq(s, i + 1, Len(s))
        j == IndexOf(rest, "?")
        query == IF j = 0 THEN rest ELSE SubSeq(rest, 1, j - 1)
    IN IF i = 0 \/ query = <<>> THEN <<>> ELSE <<"?">> \o query

\* The j-th candidate of the extension trial of t.
TrialCandidate(t, j) == PathOf(t) \o <<TrialOrder[j]>> \o QueryOf(t)

\* How many candidates of the extension trial of t are in the log up to k.
TrialTurn(t, k) ==
    Cardinality({l \in 1..k : calls[l].fn = "tryExtensions" /\ calls[l].of = t})

\* A text with the first token x that a quote follows taken out.
WithoutQuoted(text, x) ==
    IF \E i \in 1..(Len(text) - 1) : text[i] = x /\ text[i + 1] = "'"
    THEN LET i == CHOOSE i \in 1..(Len(text) - 1) :
                      /\ text[i] = x /\ text[i + 1] = "'"
                      /\ \A j \in 1..(i - 1) : ~(text[j] = x /\ text[j + 1] = "'")
         IN SubSeq(text, 1, i - 1) \o SubSeq(text, i + 1, Len(text))
    ELSE text

\* An extension trial has just thrown to the function that called it.
TrialThrew ==
    /\ op = "resolve"
    /\ Len(stack) > 0
    /\ Top.pc \in {"index", "literal", "extensionsFallback"}
    /\ ret.kind = "error"

\* C15: the extension trial asks for the candidates in the order .js, .json,
\* .ts, .tsx, .jsx, each only after the one before it failed; a candidate that
\* resolves is the last thing asked; and when all five failed the trial throws
\* the error of the .js candidate, with ".js'" replaced by "'" in its message
\* and in its stack, whatever the later candidates failed with.
C15_ExtensionTrial ==
    /\ \A k \in 1..Len(calls) :
        LET t == calls[k].of
            j == TrialTurn(t, k)
        IN calls[k].fn = "tryExtensions" =>
            /\ j <= Len(TrialOrder)
            /\ calls[k].specifier = TrialCandidate(t, j)
            /\ j > 1 =>
                /\ calls[k - 1].fn = "tryExtensions"
                /\ calls[k - 1].of = t
                /\ ~calls[k - 1].out.ok
            /\ calls[k].out.ok => k = Len(calls)
            /\ (~calls[k].out.ok /\ j < Len(TrialOrder) /\ Done) => k < Len(calls)
    /\ TrialThrew =>
        LET n == Len(calls)
            first == calls[n - 4].out.error
        IN /\ n >= 5
           /\ \A l \in (n - 4)..n :
                /\ calls[l].fn = "tryExtensions"
                /\ calls[l].of = calls[n].of
                /\ ~calls[l].out.ok
           /\ calls[n - 4].specifier = TrialCandidate(calls[n].of, 1)
           /\ ret.error.code = first.code
           /\ ret.error.message = WithoutQuoted(first.message, ".js")
           /\ ret.error.stack = WithoutQuoted(first.stack, ".js")

\* The .js candidate failed with PackagePathNotExported, the other four were
\* not found, and the trial threw the first error.
C15_Witness ==
    /\ TrialThrew
    /\ Len(calls) >= 5
    /\ calls[Len(calls) - 4].out.error.code = ERR_PACKAGE_PATH_NOT_EXPORTED
    /\ calls[Len(calls)].out.error.code = ERR_MODULE_NOT_FOUND
    /\ ret.error.code = ERR_PACKAGE_PATH_NOT_EXPORTED
    /\ ret.error.message # calls[Len(calls) - 4].out.error.message

\* ------------------------------------------------------------------ C16

\* The specifier is an explicit directory: its path part ends in a separator.
ExplicitDirectory(t) == Len(PathOf(t)) > 0 /\ PathOf(t)[Len(PathOf(t))] = "/"

\* The specifier of the index trial of the directory t.
IndexTrialOf(t) ==
    PathOf(t) \o (IF ExplicitDirectory(t) THEN <<"index">> ELSE <<"/", "index">>)
              \o QueryOf(t)

\* The delegate call k is the last candidate of the index trial that the
\* directory trial of calls[k].resolve ran, and it failed.
IndexTrialFailed(k) ==
    /\ calls[k].fn = "tryExtensions"
    /\ calls[k].of = IndexTrialOf(calls[k].resolve)
    /\ calls[k].of # calls[k].resolve
    /\ calls[k].specifier = TrialCandidate(calls[k].of, Len(TrialOrder))
    /\ ~calls[k].out.ok

\* The directory trial has just thrown to the call of resolve that ran it.
DirectoryThrew ==
    /\ op = "resolve"
    /\ Len(stack) > 0
    /\ Top.pc \in {"directory", "directoryFallback"}
    /\ ret.kind = "error"

\* C16: once the five index candidates of a directory trial have failed, the
\* next thing asked is the first candidate of the literal specifier's own
\* extension trial when the specifier is no explicit directory, and nothing more
\* is asked for that specifier when it is one: then the specifier with an
\* extension added never goes to the delegate.  A directory trial that fails
\* throws the first error of its index trial, reading as if the directory
\* specifier itself had been asked for.
C16_DirectoryTrial ==
    /\ \A k \in 1..Len(calls) :
        LET t == calls[k].resolve
        IN IndexTrialFailed(k) =>
            IF ExplicitDirectory(t)
            THEN /\ k < Len(calls) => calls[k + 1].resolve # t
                 /\ \A l \in 1..Len(calls), j \in 1..Len(TrialOrder) :
                        calls[l].resolve = t =>
                            calls[l].specifier # TrialCandidate(t, j)
            ELSE /\ Done => k < Len(calls)
                 /\ k < Len(calls) =>
                        /\ calls[k + 1].fn = "tryExtensions"
                        /\ calls[k + 1].of = t
                        /\ calls[k + 1].specifier = TrialCandidate(t, 1)
    /\ DirectoryThrew =>
        LET t == Top.specifier
            n == Len(calls)
            first == IF ExplicitDirectory(t) THEN n - 4 ELSE n - 9
        IN /\ first >= 1
           /\ \A l \in first..n : ~calls[l].out.ok /\ calls[l].resolve = t
           /\ IndexTrialFailed(first + 4)
           /\ calls[first].specifier = TrialCandidate(IndexTrialOf(t), 1)
           /\ ~ExplicitDirectory(t) =>
                \A j \in 1..Len(TrialOrder) :
                    calls[n - 5 + j].specifier = TrialCandidate(t, j)
           /\ ret.error = AsIfFor(calls[first].out.error, t)

\* The directory trial of a specifier that is no explicit directory has thrown
\* after the index trial and the literal specifier's trial both failed; the
\* literal trial's first error is of another kind than the one thrown.
C16_Witness ==
    /\ DirectoryThrew
    /\ ~ExplicitDirectory(Top.specifier)
    /\ Len(calls) >= 10
    /\ calls[Len(calls) - 4].out.error.code = ERR_INVALID_MODULE_SPECIFIER
    /\ ret.error.code = ERR_MODULE_NOT_FOUND
    /\ ret.error.message # calls[Len(calls) - 9].out.error.message

\* The directory trial of an explicit directory that holds a query has thrown
\* after its index trial failed.
C16_WitnessExplicit ==
    /\ DirectoryThrew
    /\ ExplicitDirectory(Top.specifier)
    /\ QueryOf(Top.specifier) # <<>>
    /\ Len(calls) = 5

\* ------------------------------------------------------------------ C17

\* The complete query of a specifier: its first '?' and all that follows.
WholeQuery(s) == IF IndexOf(s, "?") = 0 THEN <<>> ELSE SubSeq(s, IndexOf(s, "?"), Len(s))

\* What a trial injects before the extension: tryExtensions nothing,
\* tryDirectory 'index', after a separator unless the path part ends in one.
Injected(fn, s) ==
    IF fn = "tryExtensions" THEN <<>>
    ELSE IF ExplicitDirectory(s) THEN <<"index">> ELSE <<"/", "index">>

\* The candidates of a trial have been computed.
Computed == op = "candidates" /\ candidates # <<>>

\* C17: every candidate of a trial is the path part of the specifier, then what
\* the trial injects ('index' or '/index', 'index' alone only when the path part
\* ends in a separator), then the extension, then the specifier's complete
\* query; so the candidate without the injected text is the specifier.
C17_CandidatesKeepQuery ==
    Computed =>
        /\ Len(candidates) = Len(TrialOrder)
        /\ \A j \in 1..Len(candidates) :
            candidates[j] = PathOf(trialOf.specifier)
                            \o Injected(trialOf.fn, trialOf.specifier)
                            \o <<TrialOrder[j]>>
                            \o WholeQuery(trialOf.specifier)

\* The same for the specifiers whose query is absent or is one '?' followed by
\* text that holds neither '?' nor '/'.
PlainQuery(s) ==
    LET q == WholeQuery(s)
    IN q = <<>> \/ (Len(q) > 1 /\ \A i \in 2..Len(q) : q[i] \notin {"?", "/"})

C17_PlainQueryKept ==
    (Computed /\ PlainQuery(trialOf.specifier)) =>
        \A j \in 1..Len(candidates) :
            candidates[j] = PathOf(trialOf.specifier)
                            \o Injected(trialOf.fn, trialOf.specifier)
                            \o <<TrialOrder[j]>>
                            \o WholeQuery(trialOf.specifier)

\* The candidates of the directory trial of './a/?q' have been computed.
C17_Witness ==
    /\ Computed
    /\ trialOf = [fn |-> "tryDirectory", specifier |-> <<".", "/", "a", "/", "?", "q">>]

\* ------------------------------------------------------------------ C18

\* A call of load has run the commonjs branch to its end with the text it
\* worked on (a call whose readFile failed has no text).
CommonJsDone ==
    /\ op = "load"
    /\ loadPc = "done"
    /\ loaded.format = "commonjs"
    /\ result.error # "ENOENT"

\* The extension of the file load was called for.
LoadedExtension == PathEnd(filePathOf(loadUrl))

TypedExtensions == {".cts", ".mts", ".ts", ".tsx", ".jsx"}

\* The text has an import or export statement.
ModuleSyntax(text) ==
    \E k \in 1..Len(text) :
        \/ text[k] = "export"
        \/ text[k] = "import" /\ (k = Len(text) \/ text[k + 1] # "(")

\* The call ran the synchronous transform once, after the lookup of the
\* file's compiler options when there is one, and nothing else.
RanTransformSync ==
    /\ Count(trace, "transformSync") = 1
    /\ Count(trace, "transform") = 0
    /\ Count(trace, "transformDynamicImport") = 0
    /\ Count(trace, "fileMatcher") = (IF fileMatcher THEN 1 ELSE 0)
    /\ \A k \in 1..Len(trace) :
        trace[k] = "fileMatcher" => k < Len(trace) /\ trace[k + 1] = "transformSync"

\* The call ran the interop rewriter once and no transform.
RanRewriterOnly ==
    /\ Count(trace, "transformDynamicImport") = 1
    /\ Count(trace, "transformSync") = 0
    /\ Count(trace, "transform") = 0
    /\ Count(trace, "fileMatcher") = 0

\* The call ran neither.
RanNoWork == \A w \in Works \cup {"fileMatcher"} : Count(trace, w) = 0

\* What load returns keeps the delegate's format and has a source.
KeepsFormat ==
    result.kind = "value" => result.format = loaded.format /\ result.hasSource

\* C18 as stated: typed-superset source, and any text with module syntax, goes
\* through the synchronous transform; a .cjs file without either gets the
\* rewriter only; what is returned keeps the format and has a source.
C18_AsStated ==
    CommonJsDone =>
        /\ (LoadedExtension \in TypedExtensions \/ ModuleSyntax(loadCode)) =>
                RanTransformSync
        /\ (LoadedExtension = ".cjs" /\ LoadedExtension \notin TypedExtensions
            /\ ~ModuleSyntax(loadCode)) => RanRewriterOnly
        /\ KeepsFormat

\* The url the commonjs branch takes the file to have: the one the delegate
\* says the text came from, else the one load was called with.
FileUrl == IF loaded.responseURL = <<>> THEN loadUrl ELSE loaded.responseURL

\* C18: in the commonjs branch, a file whose path ends in a typed-superset
\* extension or in .js, .cjs or .mjs gets the interop rewriter only when its
\* url, query included, ends in .cjs, whatever its text; otherwise it gets the
\* synchronous transform, never the asynchronous one, after the lookup of its
\* compiler options when a lookup exists, when its extension is typed-superset
\* or its text has module syntax; every other file gets neither; and what load
\* returns keeps the delegate's format and has a source.
C18_CommonJsTransform ==
    CommonJsDone =>
        /\ IF LoadedExtension \notin TypedExtensions \cup {".js", ".cjs", ".mjs"}
           THEN RanNoWork
           ELSE IF FileUrl[Len(FileUrl)] = ".cjs"
                THEN RanRewriterOnly
                ELSE IF LoadedExtension \in TypedExtensions \/ ModuleSyntax(loadCode)
                     THEN RanTransformSync
                     ELSE RanNoWork
        /\ KeepsFormat

\* A .js file of a commonjs package whose text has module syntax went
\* through the synchronous transform with the lookup, and load returned.
C18_Witness ==
    /\ CommonJsDone
    /\ LoadedExtension = ".js"
    /\ ModuleSyntax(loadCode)
    /\ fileMatcher
    /\ RanTransformSync
    /\ result.kind = "value"
    /\ result.source # loadCode

\* A .cjs file whose text has module syntax got the rewriter only.
C18_WitnessCjs ==
    /\ CommonJsDone
    /\ LoadedExtension = ".cjs"
    /\ FileUrl = loadUrl
    /\ FileUrl[Len(FileUrl)] = ".cjs"
    /\ ModuleSyntax(loadCode)
    /\ RanRewriterOnly

\* ------------------------------------------------------------------ C19

\* A call of load has ended for a delegate result that is not commonjs.
OtherFormatDone ==
    /\ op = "load"
    /\ loadPc = "done"
    /\ loaded # NoLoaded
    /\ loaded.format # "commonjs"

\* The url names typed-superset source.
TypedUrl == PathEnd(loadUrl) \in TypedExtensions

\* The text holds a dynamic import: 'import' followed by '('.
HasDynamicImport(text) ==
    \E k \in 1..(Len(text) - 1) : text[k] = "import" /\ text[k + 1] = "("

\* C19: for a delegate result that is not commonjs, load returns a result
\* without source as it came and runs neither rewriter nor transform; with a
\* source and a typed-superset url it runs the asynchronous transform alone
\* and returns its text with the format 'module'; with a source, the format
\* 'module' and another url it runs the rewriter alone, keeps the format, and
\* returns another source than the delegate's exactly when the rewriter found
\* a dynamic import to rewrite.
C19_OtherFormats ==
    OtherFormatDone =>
        /\ ~loaded.hasSource =>
            /\ result = Returned(loaded.format, FALSE, <<>>)
            /\ RanNoWork
        /\ (loaded.hasSource /\ TypedUrl) =>
            /\ Count(trace, "transform") = 1
            /\ Count(trace, "transformSync") = 0
            /\ Count(trace, "transformDynamicImport") = 0
            /\ result.kind = "value" =>
                /\ result.format = "module"
                /\ result.hasSource
                /\ result.source = <<"transformed">> \o loaded.source
        /\ (loaded.hasSource /\ ~TypedUrl /\ loaded.format = "module") =>
            /\ Count(trace, "transformDynamicImport") = 1
            /\ Count(trace, "transform") = 0
            /\ Count(trace, "transformSync") = 0
            /\ result.kind = "value"
            /\ result.format = "module"
            /\ result.hasSource
            /\ (result.source # loaded.source) <=> HasDynamicImport(loaded.source)
            /\ Count(trace, "applySourceMap") =
                    (IF HasDynamicImport(loaded.source) THEN 1 ELSE 0)

\* A module that is no typed-superset source and holds a dynamic import came
\* back with another source.
C19_Witness ==
    /\ OtherFormatDone
    /\ loaded.hasSource
    /\ ~TypedUrl
    /\ loaded.format = "module"
    /\ result.source # loaded.source

\* A json result for a typed-superset url came back as a module.
C19_WitnessTyped ==
    /\ OtherFormatDone
    /\ loaded.hasSource
    /\ TypedUrl
    /\ loaded.format = "json"
    /\ result.kind = "value"
    /\ result.format = "module"

\* A result without source came back as it was.
C19_WitnessNoSource ==
    /\ OtherFormatDone
    /\ ~loaded.hasSource
    /\ result.kind = "value"

\* ------------------------------------------------------------------ C20

\* A call of load ran the rewriter on a text and returned.
Rewrote ==
    /\ op = "load"
    /\ loadPc = "done"
    /\ Count(trace, "transformDynamicImport") = 1
    /\ result.kind = "value"

\* The text the rewriter was given, and the text load returned after it.
RewriterInput == IF loaded.format = "commonjs" THEN loadCode ELSE loaded.source
RewriterOutput == result.source

\* The places of a text where a dynamic import starts.
Sites(text) == {k \in 1..(Len(text) - 1) : text[k] = "import" /\ text[k + 1] = "("}

\* The place where the call that starts at k is closed.
ClosingOf(text, k) ==
    CHOOSE e \in (k + 2)..Len(text) :
        /\ text[e] = ")"
        /\ \A j \in (k + 2)..(e - 1) : text[j] # ")"

Inserted == {".then(___tsxInteropDynamicImport)",
             "function ___tsxInteropDynamicImport(imported){}"}

IsOriginal(token) == token \notin Inserted

\* C20: the rewriter gives nothing for a text without 'import' or without a
\* dynamic import (load returns the text it had); for a text with n dynamic
\* imports the text it gives has n chained handler calls, one right after the
\* closing parenthesis of each dynamic import, and the handler's declaration
\* once, as its last part; and taking the insertions out gives the input back.
C20_Rewriter ==
    Rewrote =>
        LET in == RewriterInput
            out == RewriterOutput
            n == Cardinality(Sites(in))
        IN /\ n = 0 =>
                /\ out = in
                /\ Count(trace, "applySourceMap") = 0
           /\ n > 0 =>
                /\ Count(out, ".then(___tsxInteropDynamicImport)") = n
                /\ Count(out, "function ___tsxInteropDynamicImport(imported){}") = 1
                /\ out[Len(out)] = "function ___tsxInteropDynamicImport(imported){}"
                /\ \A k \in Sites(out) :
                        out[ClosingOf(out, k) + 1] = ".then(___tsxInteropDynamicImport)"
                /\ \A k \in 1..Len(out) :
                        out[k] = ".then(___tsxInteropDynamicImport)" =>
                            k > 1 /\ out[k - 1] = ")"
                /\ SelectSeq(out, IsOriginal) = in

\* A module with two dynamic imports came back with two chained calls.
C20_Witness ==
    /\ Rewrote
    /\ Cardinality(Sites(RewriterInput)) = 2
    /\ Count(RewriterOutput, ".then(___tsxInteropDynamicImport)") = 2

\* A text that holds 'import' only inside a word came back as it was.
C20_WitnessNothing ==
    /\ Rewrote
    /\ RewriterInput = <<"important">>
    /\ RewriterOutput = RewriterInput

\* ------------------------------------------------------------------ C21

\* The url of the call ends in .json, a query may follow.
JsonUrl == PathEnd(loadUrl) = ".json"

\* The step in which load hands the context to nextLoad.
CallsNextLoad ==
    /\ op = "load"
    /\ Count(trace, "nextLoad") = 0
    /\ Count(trace', "nextLoad") = 1

\* C21: in the step that calls nextLoad the attributes of the context are,
\* for a json url, an object whose type is 'json' and whose other attribute
\* is the one the caller gave, and for any other url what the caller gave;
\* and no later step of the call changes them.
C21_JsonTypeForced ==
    [][/\ CallsNextLoad =>
            IF JsonUrl
            THEN /\ context'.defined
                 /\ context'.type = "json"
                 /\ context'.other = context.other
            ELSE context' = context
       /\ (op = "load" /\ ~CallsNextLoad) => context' = context]_vars

\* nextLoad was called for a json url whose context came with another
\* attribute and no type: it got the type besides the attribute.
C21_Witness ==
    /\ op = "load"
    /\ Count(trace, "nextLoad") = 1
    /\ JsonUrl
    /\ context = [defined |-> TRUE, type |-> "json", other |-> "x"]

\* nextLoad was called for another url with a context that has no attributes.
C21_WitnessOther ==
    /\ op = "load"
    /\ Count(trace, "nextLoad") = 1
    /\ ~JsonUrl
    /\ ~context.defined

\* ------------------------------------------------------------------ C22

\* What a call of load can end with, given the url, the delegate's answer,
\* the text of the file and whether mainThreadPort is bound: the reporter
\* has no part in it.
Outcomes(u, l, text, port) ==
    IF l = NoLoaded
    THEN {Threw("ERR_UNKNOWN_FILE_EXTENSION")}
    ELSE IF l.format = "commonjs"
         THEN (IF l.hasSource THEN {} ELSE {Threw("ENOENT")})
              \cup {CommonJsBranch(u, l, text, s, port).result : s \in BOOLEAN}
         ELSE IF ModuleWork(u, l) = "transform"
              THEN {Threw("SyntaxError"),
                    Returned("module", TRUE, Transformed(l.source).code)}
              ELSE {PassThrough(u, l).result}

\* C22: a call of load whose reporter is connected has sent exactly one
\* message, {type: 'dependency', path: url}, and sent it before it called
\* nextLoad; a call without a reporter has sent nothing, and ends as a call
\* with a reporter ends: with what the url, the delegate and the transforms
\* make of it, and with no error but theirs.
C22_DependencyReported ==
    op = "load" =>
        /\ loadPc = "start" => messages = <<>>
        /\ (loadPc # "start" /\ sendToParent) =>
            /\ messages = <<[type |-> "dependency", path |-> loadUrl]>>
            /\ Count(trace, "sendToParent") = 1
            /\ trace[1] = "sendToParent"
            /\ trace[2] = "nextLoad"
        /\ (loadPc # "start" /\ ~sendToParent) =>
            /\ messages = <<>>
            /\ Count(trace, "sendToParent") = 0
            /\ trace[1] = "nextLoad"
        /\ loadPc = "done" => result \in Outcomes(loadUrl, loaded, loadCode, mainThreadPort)

\* A call with a reporter has returned after one message.
C22_Witness ==
    /\ op = "load"
    /\ loadPc = "done"
    /\ sendToParent
    /\ Len(messages) = 1
    /\ result.kind = "value"

\* A call without a reporter has returned after no message.
C22_WitnessNoReporter ==
    /\ op = "load"
    /\ loadPc = "done"
    /\ ~sendToParent
    /\ messages = <<>>
    /\ result.kind = "value"

\* ---------------------------------------------------------------- C23

\* What a call that runs alone is known to do, as far as a state shows it: the
\* literal fallback, the extension trial, the directory trial, the classic and
\* the other formats of load, and the report to the parent.
AsAlone ==
    /\ C13_LiteralFallback
    /\ C15_ExtensionTrial
    /\ C16_DirectoryTrial
    /\ C18_CommonJsTransform
    /\ C19_OtherFormats
    /\ C22_DependencyReported

\* The configuration of the process that the calls share.
SharedConfiguration ==
    <<tsconfigPathsMatcher.present, fileMatcher, sendToParent, mainThreadPort>>

\* The step hands the thread to the suspended call.
Switched == parked' # parked

\* C23: two calls in flight do not interfere.  Under every interleaving of
\* their steps no step writes the shared configuration (path-mapping matcher,
\* per-file compiler-options lookup, reporter, port); a step of the running
\* call leaves the suspended call as it was and only extends the running
\* call's own log of delegate calls; a call that resumes finds everything it
\* keeps exactly as it left it; and each call keeps, in every state it goes
\* through, what holds of a call that runs alone.
C23_NoInterference ==
    /\ []AsAlone
    /\ [][/\ SharedConfiguration' = SharedConfiguration
          /\ IF Switched
             THEN Locals' = parked /\ parked' = Locals
             ELSE /\ Len(calls') >= Len(calls)
                  /\ SubSeq(calls', 1, Len(calls)) = calls
                  /\ op' = op]_vars

\* Both calls are in flight, each suspended or running in the middle of its
\* work: a call of resolve with two substitution paths has asked the delegate
\* at least twice, and the other call has asked it at least twice too.
C23_Witness ==
    /\ parked # NoParked
    /\ ~Settled(parked)
    /\ ~Settled(Locals)
    /\ Len(parked.calls) >= 2
    /\ Len(calls) >= 2
    /\ Len(tsconfigPathsMatcher.paths) = 2

\* Both calls have settled, a call of load that reported to the parent among
\* them, after the thread went back and forth.
C23_WitnessSettled ==
    /\ parked # NoParked
    /\ Settled(parked)
    /\ Settled(Locals)
    /\ op = "load"
    /\ parked.op = "load"
    /\ messages # <<>>
    /\ parked.messages # <<>>

\* ---------------------------------------------------------------- C24

\* The calls of resolve that are on the stack, outermost first.
ResolveFrames == SelectSeq(stack, LAMBDA f : f.fn = "resolve")

\* How many times the delegate was asked on behalf of the call of resolve for r.
AskedFor(r) == Cardinality({k \in 1..Len(calls) : calls[k].resolve = r})

\* What one call of resolve may ask the delegate: its typed siblings, the
\* literal, and two trials over the extensions (the index files and the
\* specifier itself).
OwnBound(r) == Len(tsPaths(r, parentURL)) + 1 + 2 * Len(extensions)

\* The specifiers resolve was called with: the host's and the substitutions
\* that were re-submitted.
ResolvedFor == {specifier} \cup {calls[k].resolve : k \in 1..Len(calls)}

\* C24: every call of resolve settles when every delegate call does.  A call
\* that has not settled can take a step, and in the end it has returned or
\* thrown; at most one call of resolve is nested in the host's, it is for a
\* file url, and the matcher is asked once at most; each call of resolve asks
\* the delegate no more often than it has typed siblings, plus the literal,
\* plus twice the five extensions, and there are no more calls of resolve than
\* substitution paths and one.
C24_Settles ==
    /\ <>Done
    /\ [](~Done => ENABLED ResolveNext)
    /\ [](/\ Len(ResolveFrames) <= 2
          /\ Len(ResolveFrames) = 2 => StartsWith(ResolveFrames[2].specifier, fileProtocol)
          /\ Len(matcherCalls) <= 1)
    /\ [](/\ \A r \in ResolvedFor : AskedFor(r) <= OwnBound(r)
          /\ Cardinality(ResolvedFor) <= Len(possiblePaths) + 1
          /\ Len(calls) <= (Len(possiblePaths) + 1) * (2 + 1 + 2 * Len(extensions)))

\* The host's call has thrown after both substitution paths were re-submitted
\* and failed, each with its own trials, and the host's specifier went through
\* its siblings, the literal and the directory trial.
C24_Witness ==
    /\ Done
    /\ ret.kind = "error"
    /\ Len(possiblePaths) = 2
    /\ Cardinality(ResolvedFor) = 3
    /\ AskedFor(specifier) = OwnBound(specifier)
    /\ Len(calls) >= 25

\* A substitution path is being resolved: a call of resolve nested in the
\* host's is in the middle of its extension trial.
C24_WitnessNested ==
    /\ Len(ResolveFrames) = 2
    /\ Top.fn = "tryExtensions"
    /\ AskedFor(ResolveFrames[2].specifier) >= 3

====
